---- MODULE Spec2Model ----
(***************************************************************************)
(* Panel2EPUB: the page-layout pipeline of convert_to_epub.py.             *)
(*                                                                         *)
(* The model follows one run over the staging tree temp/:                  *)
(*   copy_images_to_temp_images  (covers renamed to 0.ext, 0_1.ext, ...)   *)
(*   generate_xhtml_pages  (probe, classify, split, page documents)        *)
(*   generate_content_opf  (manifest and spine, blank pages)               *)
(*   generate_toc_ncx, generate_nav_xhtml, generate_style_css              *)
(*   create_epub_from_temp  (the archive, then temp/ is removed)           *)
(* and, from panel2epub_gui.py, runs that follow one another on one base   *)
(* path, a batch of CBZ archives, and the window that starts a run in a    *)
(* worker thread.                                                          *)
(* File names are sequences of one-character strings so that sorting,      *)
(* splitext, lower and sanitize_name are computed as Python computes them. *)
(***************************************************************************)
EXTENDS Integers, Sequences, FiniteSets, TLC

VARIABLES
    source,              \* the source folder: file name -> image content
    staged,              \* the files of temp/ outside the two maps below
    walked,              \* create_epub_from_temp: the files os.walk has yielded
    archive,             \* the entries of the .epub archive, in order
    nav_points,          \* the navPoint elements of toc.ncx, in order
    Images,              \* temp/OEBPS/Images: file name -> image content
    Text,                \* temp/OEBPS/Text: file name -> page document
    input,               \* the Images folder as it was handed to the run
    log,                 \* the messages printed so far
    faults,              \* I/O failures met so far (crop, save, write, remove)
    reading_direction,   \* parameter
    has_cover,           \* parameter
    double_page_ratio,   \* parameter, a rational <<num, den>>
    original_resolution, \* parameter, parsed: <<width, height>>
    pc,                  \* "copy", "xhtml", "opf", "done", "zip" or "epub"
    filenames,           \* generate_xhtml_pages: the frozen listing
    k,                   \* generate_xhtml_pages: position of the for loop (1-based)
    image_files,         \* generate_content_opf: the sorted image list
    i,                   \* generate_content_opf: loop index (0-based, as in the code)
    manifest_items,
    spine_items,
    last_side,
    next_side,
    blank_counter,
    cover_image_id,
    form,                \* EpubApp: the fields of the window
    btn_start,           \* EpubApp: state of the button "Generate EPUB"
    gui_pc,              \* EpubApp: the main thread, "mainloop" or inside on_start
    threads,             \* the worker threads that have not called done yet
    after_queue,         \* the callbacks scheduled with after(0, ...), in order
    messagebox,          \* the message boxes that are open, the last one on top
    txt_log,             \* EpubApp: the log widget, "empty" or "text"
    cbz_paths,           \* run_pipeline_cbz_list: the paths to convert
    cbz_idx,             \* run_pipeline_cbz_list: position of the for loop (1-based)
    extract_dirs,        \* the extraction folders that exist under the output root
    generated_epubs,     \* run_pipeline_cbz_list: the list it returns
    batch_pc             \* run_pipeline_cbz_list: "idle", "loop", "pipeline",
                         \* "returned" or "raised"

\* the state of the window
gui == <<form, btn_start, gui_pc, threads, after_queue, messagebox, txt_log>>

\* the state of a CBZ batch
batch == <<cbz_paths, cbz_idx, extract_dirs, generated_epubs, batch_pc>>

vars == <<source, staged, walked, archive, nav_points, Images, Text, input, log, faults, reading_direction, has_cover,
          double_page_ratio, original_resolution, pc, filenames, k,
          image_files, i, manifest_items, spine_items, last_side, next_side,
          blank_counter, cover_image_id, gui, batch>>

(***************************************************************************)
(* Bounds                                                                  *)
(***************************************************************************)
\* files in the Images folder at the start of a run
MaxImages == 2

\* I/O failures injected in one run
MaxFaults == 1

\* characters of the base name of a file chosen freely
MaxNameLen == 2

\* files of a longer book
MaxPages == 4

\* worker threads alive at once
MaxWorkers == 2

\* log callbacks waiting in the queue of after(0, ...)
MaxQueue == 2

\* paths handed to one CBZ batch
MaxBatch == 3

(***************************************************************************)
(* Characters and strings                                                  *)
(***************************************************************************)
\* The characters of the model in code point order.
CodePoints ==
    <<" ", "!", "-", ".", "/",
      "0", "1", "2", "3", "4", "5", "6", "7", "8", "9",
      "A", "B", "C", "D", "E", "F", "G", "H", "I", "J", "K", "L", "M",
      "N", "O", "P", "Q", "R", "S", "T", "U", "V", "W", "X", "Y", "Z",
      "_",
      "a", "b", "c", "d", "e", "f", "g", "h", "i", "j", "k", "l", "m",
      "n", "o", "p", "q", "r", "s", "t", "u", "v", "w", "x", "y", "z",
      "~">>

Chars == {CodePoints[n] : n \in DOMAIN CodePoints}

Ord == [c \in Chars |-> CHOOSE n \in DOMAIN CodePoints : CodePoints[n] = c]

Digits == {"0", "1", "2", "3", "4", "5", "6", "7", "8", "9"}

UpperCase == {c \in Chars : Ord[c] >= Ord["A"] /\ Ord[c] <= Ord["Z"]}

LowerCase == {c \in Chars : Ord[c] >= Ord["a"] /\ Ord[c] <= Ord["z"]}

AlNum == Digits \cup UpperCase \cup LowerCase

isalnum(c) == c \in AlNum

lower_char(c) ==
    IF c \in UpperCase THEN CodePoints[Ord[c] - Ord["A"] + Ord["a"]] ELSE c

lower(s) == [n \in DOMAIN s |-> lower_char(s[n])]

\* str < str: lexicographic on code points
RECURSIVE StrLess(_, _)
StrLess(s, t) ==
    IF s = <<>> THEN t # <<>>
    ELSE IF t = <<>> THEN FALSE
    ELSE IF s[1] = t[1] THEN StrLess(Tail(s), Tail(t))
    ELSE Ord[s[1]] < Ord[t[1]]

\* sorted(...) of a set of distinct strings (a directory listing)
RECURSIVE sorted(_)
sorted(S) ==
    IF S = {} THEN <<>>
    ELSE LET m == CHOOSE x \in S : \A y \in S : x = y \/ StrLess(x, y)
         IN  <<m>> \o sorted(S \ {m})

\* os.path.splitext: <<root, ext>>, the extension starting at the last dot
\* unless only dots precede it
splitext(s) ==
    LET dots == {n \in DOMAIN s : s[n] = "."}
        d    == IF dots = {} THEN 0
                ELSE CHOOSE n \in dots : \A m \in dots : m <= n
    IN  IF d = 0 \/ \A n \in 1..(d - 1) : s[n] = "."
        THEN <<s, <<>>>>
        ELSE <<SubSeq(s, 1, d - 1), SubSeq(s, d, Len(s))>>

endswith(s, t) ==
    Len(s) >= Len(t) /\ SubSeq(s, Len(s) - Len(t) + 1, Len(s)) = t

\* str(n) for n >= 0
RECURSIVE str(_)
str(n) ==
    IF n < 10 THEN <<CodePoints[Ord["0"] + n]>>
    ELSE str(n \div 10) \o <<CodePoints[Ord["0"] + (n % 10)]>>

jpg == <<".", "j", "p", "g">>
jpeg == <<".", "j", "p", "e", "g">>
png == <<".", "p", "n", "g">>
gif == <<".", "g", "i", "f">>
bmp == <<".", "b", "m", "p">>
webp == <<".", "w", "e", "b", "p">>
svg == <<".", "s", "v", "g">>

rtl == <<"r", "t", "l">>
ltr == <<"l", "t", "r">>

\* generate_xhtml_pages.sanitize_name
\* sanitize_name keeping spaces as well, as sanitize_filename does
sanitize_name_keeps_spaces(name) ==
    [n \in DOMAIN name |->
        IF isalnum(name[n]) \/ name[n] \in {" ", "_", "-"} THEN name[n] ELSE "_"]

sanitize_name(name) ==
    [n \in DOMAIN name |->
        IF isalnum(name[n]) \/ name[n] \in {"_", "-"} THEN name[n] ELSE "_"]

\* generate_content_opf.sanitize_name
opf_sanitize_name(name) ==
    [n \in DOMAIN name |->
        IF isalnum(name[n]) \/ name[n] \in {"_", "-"} THEN name[n] ELSE "_"]

\* f"page_{safe}_F.xhtml"
page_xhtml(safe) ==
    <<"p", "a", "g", "e", "_">> \o safe \o <<"_", "F", ".", "x", "h", "t", "m", "l">>

(***************************************************************************)
(* The staging tree temp/                                                  *)
(***************************************************************************)
\* A file of the tree is <<directory, name>>, the directory relative to
\* temp/ ("" is temp/ itself).
root_dir == ""
meta_inf_dir == "META-INF"
oebps_dir == "OEBPS"
images_dir == "OEBPS/Images"
text_dir == "OEBPS/Text"

\* os.path.dirname of a directory of the tree
dirname(d) == IF d \in {images_dir, text_dir} THEN oebps_dir ELSE root_dir

mimetype_file == <<root_dir, <<"m", "i", "m", "e", "t", "y", "p", "e">>>>
container_xml == <<meta_inf_dir, <<"c", "o", "n", "t", "a", "i", "n", "e", "r", ".", "x", "m", "l">>>>
content_opf == <<oebps_dir, <<"c", "o", "n", "t", "e", "n", "t", ".", "o", "p", "f">>>>
toc_ncx == <<oebps_dir, <<"t", "o", "c", ".", "n", "c", "x">>>>
nav_xhtml == <<oebps_dir, <<"n", "a", "v", ".", "x", "h", "t", "m", "l">>>>
style_css == <<text_dir, <<"s", "t", "y", "l", "e", ".", "c", "s", "s">>>>

\* initial_setup: temp/ is removed and created again with these two files
setup_files == {mimetype_file, container_xml}

(***************************************************************************)
(* Inputs of a run                                                         *)
(***************************************************************************)
\* File names an Images folder may hold at the start of the run.
NamePool ==
    { <<"p", "1">> \o jpg,
      <<"p", "2">> \o jpg,
      <<"s", "1">> \o jpg,
      <<"p", "2", "_", "a">> \o jpg,
      <<"s", "1">> \o svg }

\* Image contents: pixel size, whether the file decodes, and which crop of a
\* split wrote it ("none" for a file of the input).
Content(w, h, ok) == [w |-> w, h |-> h, ok |-> ok, crop |-> "none"]

\* The runs of the model: a threshold, a resolution (the fallback size of
\* the probe and the size of blank pages) and the contents the images of
\* the run are drawn from.
Profile(threshold, resolution, contents) ==
    [double_page_ratio |-> threshold, original_resolution |-> resolution,
     contents |-> contents]

ProfilePool ==
    { \* the default threshold; an image that does not decode is a single page
      Profile(<<13, 10>>, <<2, 3>>,
              { Content(2, 3, TRUE),       \* portrait page
                Content(8, 2, TRUE),       \* spread whose halves are wide too
                Content(5, 3, TRUE),       \* spread of odd width
                Content(2, 3, FALSE) }),   \* does not decode
      \* a fallback size that is itself wide
      Profile(<<13, 10>>, <<8, 2>>,
              { Content(2, 3, TRUE),
                Content(8, 2, TRUE),
                Content(2, 3, FALSE) }),
      \* threshold 0 and a fallback of height 0
      Profile(<<0, 1>>, <<8, 0>>,
              { Content(1, 3, TRUE),       \* one pixel wide
                Content(2, 3, TRUE),
                Content(2, 3, FALSE) }) }

DirectionPool == {rtl, ltr}

\* Runs whose direction is also written in upper case or is no direction at
\* all, over a folder of two pages and a vector image.
DirectionValues == {rtl, ltr, <<"L", "T", "R">>, <<"u", "p">>}

DirectionNames == { <<"p", "1">> \o jpg, <<"p", "2">> \o jpg, <<"s", "1">> \o svg }

DirectionProfiles == { p \in ProfilePool : p.original_resolution = <<8, 2>> }

\* Longer books: up to MaxPages files, each a portrait page or a spread of
\* odd width whose halves are portrait pages.
BookNames ==
    { <<"a", "1">> \o jpg, <<"b", "2">> \o jpg, <<"c", "3">> \o jpg,
      <<"d", "4">> \o jpg, <<"e", "5">> \o svg }

BookFolders == {names \in SUBSET BookNames : Cardinality(names) <= MaxPages}

BookProfiles ==
    { Profile(<<13, 10>>, <<2, 3>>, {Content(2, 3, TRUE), Content(5, 3, TRUE)}) }

\* Runs over one file whose base name is any string of at most MaxNameLen
\* of these characters (letters, digits, the two characters sanitize_name
\* keeps, and characters it replaces).
NameChars == {"a", "1", "_", "-", " ", "!", "."}

RECURSIVE Strings(_, _)
Strings(chars, n) ==
    IF n = 0 THEN {<<>>}
    ELSE LET shorter == Strings(chars, n - 1)
         IN  shorter \cup {Append(s, c) : s \in shorter, c \in chars}

\* the names copy_images_to_temp_images lets into the folder
AnyNames ==
    { f \in {b \o e : b \in Strings(NameChars, MaxNameLen) \ {<<>>}, e \in {jpg, svg}} :
        lower(splitext(f)[2]) \in {jpg, svg} }

(***************************************************************************)
(* generate_xhtml_pages                                                    *)
(***************************************************************************)
raster_extensions == {jpg, jpeg, png, gif, bmp, webp}

\* reading_direction.lower(), defaulting to rtl
\* the direction compared without lower()
xhtml_direction_case_sensitive(d) == IF d \notin {rtl, ltr} THEN rtl ELSE d

xhtml_direction(d) == IF lower(d) \notin {rtl, ltr} THEN rtl ELSE lower(d)

\* the probe without fallback: a size of 0x0 for a file that does not decode
probe_no_fallback(imgs, f) ==
    IF imgs[f].ok THEN <<imgs[f].w, imgs[f].h>> ELSE <<0, 0>>

\* Image.open(...).size with the fallback of the except branch
probe(imgs, f) ==
    IF imgs[f].ok THEN <<imgs[f].w, imgs[f].h>> ELSE original_resolution

\* mutant: the ratio taken as height / width
ratio_inverted(w, h) == IF h > 0 THEN <<h, w>> ELSE <<0, 1>>

\* ratio = img_width / img_height if img_height > 0 else 0.0
ratio(w, h) == IF h > 0 THEN <<w, h>> ELSE <<0, 1>>

\* ratio >= double_page_ratio, on rationals with positive denominators
is_double(w, h, threshold) ==
    ratio(w, h)[1] * threshold[2] >= threshold[1] * ratio(w, h)[2]

\* mutant: the width test dropped
enters_split_any_width(w, h, threshold) == is_double(w, h, threshold)

\* if is_double and img_width > 1
enters_split(w, h, threshold) == is_double(w, h, threshold) /\ w > 1

\* the crop boxes and their roles: <<suffix_letter, side, left, right>>
\* parts with the right crop as wide as the left one
parts_equal_halves(rd, w) ==
    LET half_width == w \div 2
    IN  IF rd = ltr
        THEN << <<"a", "left", 0, half_width>>, <<"b", "right", half_width, 2 * half_width>> >>
        ELSE << <<"a", "right", half_width, 2 * half_width>>, <<"b", "left", 0, half_width>> >>

parts(rd, w) ==
    LET half_width == w \div 2
    IN  IF rd = ltr
        THEN << <<"a", "left", 0, half_width>>, <<"b", "right", half_width, w>> >>
        ELSE << <<"a", "right", half_width, w>>, <<"b", "left", 0, half_width>> >>

part_base(safe_base, part) == safe_base \o <<"_", part[1]>>

part_img_name(safe_base, ext, part) == part_base(safe_base, part) \o ext

\* img.crop(box) saved under part_img_path
save_part(imgs, safe_base, ext, h, part) ==
    (part_img_name(safe_base, ext, part) :>
        [w |-> part[4] - part[3], h |-> h, ok |-> TRUE, crop |-> part[2]]) @@ imgs

\* the page document of one half: viewport (half_width, img_height)
write_part_xhtml(txt, safe_base, ext, w, h, part) ==
    (page_xhtml(part_base(safe_base, part)) :>
        [vw |-> w \div 2, vh |-> h, img |-> part_img_name(safe_base, ext, part)]) @@ txt

\* the page document of a kept original
write_single_xhtml(txt, safe_base, filename, w, h) ==
    (page_xhtml(safe_base) :> [vw |-> w, vh |-> h, img |-> filename]) @@ txt

\* The split of one image, stopped after its first `done` writes
\* (1: _a image, 2: _a document, 3: _b image, 4: _b document).
split_progress(imgs, txt, filename, rd, w, h, done) ==
    LET name == splitext(filename)[1]
        ext  == splitext(filename)[2]
        safe == sanitize_name(name)
        ps   == parts(rd, w)
        i1   == IF done >= 1 THEN save_part(imgs, safe, ext, h, ps[1]) ELSE imgs
        t2   == IF done >= 2 THEN write_part_xhtml(txt, safe, ext, w, h, ps[1]) ELSE txt
        i3   == IF done >= 3 THEN save_part(i1, safe, ext, h, ps[2]) ELSE i1
        t4   == IF done >= 4 THEN write_part_xhtml(t2, safe, ext, w, h, ps[2]) ELSE t2
    IN  [Images |-> i3, Text |-> t4]

remove(imgs, f) == [g \in (DOMAIN imgs) \ {f} |-> imgs[g]]

Msg(m, f) == [msg |-> m, file |-> f]

\* no CBZ batch was started
BatchAtRest ==
    /\ cbz_paths = <<>>
    /\ cbz_idx = 1
    /\ extract_dirs = {}
    /\ generated_epubs = <<>>
    /\ batch_pc = "idle"

\* the window as EpubApp.__init__ builds it, in folder mode with the fields
\* filled in; no conversion was started
GuiAtRest ==
    /\ form = [var_source_mode |-> "folder", var_source |-> "folder",
               var_title |-> "title", var_creator |-> "creator",
               cbz_files |-> <<>>]
    /\ btn_start = "normal"
    /\ gui_pc = "mainloop"
    /\ threads = <<>>
    /\ after_queue = <<>>
    /\ messagebox = <<>>
    /\ txt_log = "empty"

\* the listings of an Images folder of at most MaxImages files named from
\* `pool`
Folders(pool) == {names \in SUBSET pool : Cardinality(names) <= MaxImages}

\* the state in which generate_xhtml_pages is called: the Images folder
\* holds the files of one of `folders`, the parameters come from `profiles`
\* and `directions`
Start(folders, profiles, directions) ==
    /\ GuiAtRest
    /\ BatchAtRest
    /\ \E names \in folders, p \in profiles :
          /\ Images \in [names -> p.contents]
          /\ double_page_ratio = p.double_page_ratio
          /\ original_resolution = p.original_resolution
    /\ source = Images
    /\ staged = setup_files
    /\ walked = {}
    /\ archive = <<>>
    /\ nav_points = <<>>
    /\ input = Images
    /\ Text = <<>>
    /\ log = <<>>
    /\ faults = 0
    /\ reading_direction \in directions
    /\ has_cover \in BOOLEAN
    /\ pc = "xhtml"
    /\ filenames = sorted(DOMAIN Images)
    /\ k = 1
    /\ image_files = <<>>
    /\ i = 0
    /\ manifest_items = <<>>
    /\ spine_items = <<>>
    /\ last_side = "None"
    /\ next_side = "right"
    /\ blank_counter = 0
    /\ cover_image_id = <<>>

Init == Start(Folders(NamePool), ProfilePool, DirectionPool)

opf_vars == <<image_files, i, manifest_items, spine_items, last_side,
              next_side, blank_counter, cover_image_id>>

params == <<source, staged, walked, archive, nav_points, input, reading_direction,
            has_cover, double_page_ratio, original_resolution, gui, batch>>

InXhtmlLoop == pc = "xhtml" /\ k <= Len(filenames)

\* a non-raster file (SVG) is skipped.  Every name of the frozen listing is
\* still a file when its turn comes (a split removes only the file being
\* processed), so the isfile test of the loop never fails.
XhtmlSkipNonRaster ==
    /\ InXhtmlLoop
    /\ filenames[k] \in DOMAIN Images
    /\ lower(splitext(filenames[k])[2]) \notin raster_extensions
    /\ log' = Append(log, Msg("Skipping non-raster image", filenames[k]))
    /\ k' = k + 1
    /\ UNCHANGED <<Images, Text, faults, pc, filenames, opf_vars, params>>

IsRaster(f) ==
    /\ f \in DOMAIN Images
    /\ lower(splitext(f)[2]) \in raster_extensions

\* the messages of the probe
probe_log(lg, f) ==
    IF Images[f].ok THEN lg ELSE Append(lg, Msg("Warning: cannot read size", f))

\* single page: not classified as double
XhtmlSingle ==
    /\ InXhtmlLoop
    /\ IsRaster(filenames[k])
    /\ LET f  == filenames[k]
           wh == probe(Images, f)
       IN  /\ ~enters_split(wh[1], wh[2], double_page_ratio)
           /\ Text' = write_single_xhtml(Text, sanitize_name(splitext(f)[1]),
                                         f, wh[1], wh[2])
           /\ log' = Append(probe_log(log, f), Msg("Created XHTML page SINGLE", f))
    /\ k' = k + 1
    /\ UNCHANGED <<Images, faults, pc, filenames, opf_vars, params>>

\* double page whose split runs to its end; os.remove may fail
XhtmlSplit ==
    /\ InXhtmlLoop
    /\ IsRaster(filenames[k])
    /\ LET f  == filenames[k]
           wh == probe(Images, f)
           rd == xhtml_direction(reading_direction)
           r  == split_progress(Images, Text, f, rd, wh[1], wh[2], 4)
           lg == Append(Append(probe_log(log, f),
                               Msg("Created XHTML page (split)", f)),
                        Msg("Created XHTML page (split)", f))
       IN  /\ enters_split(wh[1], wh[2], double_page_ratio)
           /\ Images[f].ok
           /\ Text' = r.Text
           /\ \E removed \in BOOLEAN :
                 IF removed
                 THEN /\ Images' = remove(r.Images, f)
                      /\ log' = Append(lg, Msg("Removed original double-page image", f))
                      /\ faults' = faults
                 ELSE /\ faults < MaxFaults
                      /\ Images' = r.Images
                      /\ log' = Append(lg, Msg("Warning: could not remove original image", f))
                      /\ faults' = faults + 1
    /\ k' = k + 1
    /\ UNCHANGED <<pc, filenames, opf_vars, params>>

\* double page whose split raises after `done` writes: the except branch
\* and the single page fallback
XhtmlSplitFails ==
    /\ InXhtmlLoop
    /\ IsRaster(filenames[k])
    /\ LET f  == filenames[k]
           wh == probe(Images, f)
           rd == xhtml_direction(reading_direction)
       IN  /\ enters_split(wh[1], wh[2], double_page_ratio)
           /\ \E done \in 0..3 :
                 /\ Images[f].ok \/ done = 0
                 /\ Images[f].ok => faults < MaxFaults
                 /\ faults' = IF Images[f].ok THEN faults + 1 ELSE faults
                 /\ LET r == split_progress(Images, Text, f, rd, wh[1], wh[2], done)
                        created == [n \in 1..(done \div 2) |->
                                       Msg("Created XHTML page (split)", f)]
                    IN  /\ Images' = r.Images
                        /\ Text' = write_single_xhtml(r.Text,
                                       sanitize_name(splitext(f)[1]), f, wh[1], wh[2])
                        /\ log' = probe_log(log, f) \o created \o
                                  << Msg("Error splitting double page", f),
                                     Msg("Created XHTML page SINGLE", f) >>
    /\ k' = k + 1
    /\ UNCHANGED <<pc, filenames, opf_vars, params>>

(***************************************************************************)
(* generate_content_opf                                                    *)
(***************************************************************************)
opf_image_extensions == {jpg, jpeg, png, gif, bmp, webp, svg}

\* rd = reading_direction.lower(), defaulting to rtl
opf_direction(d) == IF lower(d) \notin {rtl, ltr} THEN rtl ELSE lower(d)

\* mutant: the listing in descending order
list_images_descending(imgs) ==
    LET up == SelectSeq(sorted(DOMAIN imgs),
                        LAMBDA f : lower(splitext(f)[2]) \in opf_image_extensions)
    IN  [n \in DOMAIN up |-> up[Len(up) + 1 - n]]

\* the sorted listing of Images, image extensions only
list_images(imgs) ==
    SelectSeq(sorted(DOMAIN imgs),
              LAMBDA f : lower(splitext(f)[2]) \in opf_image_extensions)

image_media_type(ext_lower) ==
    IF ext_lower \in {jpg, jpeg} THEN "image/jpeg"
    ELSE IF ext_lower = png THEN "image/png"
    ELSE IF ext_lower = gif THEN "image/gif"
    ELSE IF ext_lower = svg THEN "image/svg+xml"
    ELSE "image/jpeg"

xhtml_media_type == "application/xhtml+xml"

\* f"page_Images_{safe_name}_F"
page_id(safe) ==
    <<"p", "a", "g", "e", "_", "I", "m", "a", "g", "e", "s", "_">> \o safe \o <<"_", "F">>

\* f"img_Images_{safe_name}"
image_id(safe) ==
    <<"i", "m", "g", "_", "I", "m", "a", "g", "e", "s", "_">> \o safe

cover_id == <<"c", "o", "v", "e", "r">>

\* f"page_blank_{blank_counter}"
blank_id(n) == <<"p", "a", "g", "e", "_", "b", "l", "a", "n", "k", "_">> \o str(n)

blank_xhtml(n) == blank_id(n) \o <<".", "x", "h", "t", "m", "l">>

text_href(file) == <<"T", "e", "x", "t", "/">> \o file

images_href(file) == <<"I", "m", "a", "g", "e", "s", "/">> \o file

Item(id, href, media, props) ==
    [id |-> id, href |-> href, media_type |-> media, properties |-> props]

\* nav.xhtml, toc.ncx and the stylesheet
fixed_items ==
    << Item(<<"n", "a", "v">>, <<"n", "a", "v", ".", "x", "h", "t", "m", "l">>,
            xhtml_media_type, "nav"),
       Item(<<"n", "c", "x">>, <<"t", "o", "c", ".", "n", "c", "x">>,
            "application/x-dtbncx+xml", ""),
       Item(<<"c", "s", "s">>, text_href(<<"s", "t", "y", "l", "e", ".", "c", "s", "s">>),
            "text/css", "") >>

Itemref(id, side) == [idref |-> id, side |-> side]

\* The builder's mutable state as one record, so that the helpers compose.
Layout ==
    [manifest_items |-> manifest_items, spine_items |-> spine_items,
     last_side |-> last_side, next_side |-> next_side,
     blank_counter |-> blank_counter, Text |-> Text, log |-> log]

\* mutant: next_side is not flipped
add_spine_page_no_flip(s, id, side) ==
    [s EXCEPT !.spine_items = Append(@, Itemref(id, side)),
              !.last_side = side]

add_spine_page(s, id, side) ==
    [s EXCEPT !.spine_items = Append(@, Itemref(id, side)),
              !.last_side = side,
              !.next_side = IF side = "right" THEN "left" ELSE "right"]

\* add_blank_page numbering the page without storing the counter
add_blank_page_same_number(s, side) ==
    LET n == s.blank_counter + 1
        t == [s EXCEPT
                !.Text = (blank_xhtml(n) :>
                            [vw |-> original_resolution[1],
                             vh |-> original_resolution[2],
                             img |-> <<>>]) @@ @,
                !.manifest_items =
                    Append(@, Item(blank_id(n), text_href(blank_xhtml(n)),
                                   xhtml_media_type, ""))]
    IN  add_spine_page(t, blank_id(n), side)

add_blank_page(s, side) ==
    LET n == s.blank_counter + 1
        t == [s EXCEPT
                !.blank_counter = n,
                !.Text = (blank_xhtml(n) :>
                            [vw |-> original_resolution[1],
                             vh |-> original_resolution[2],
                             img |-> <<>>]) @@ @,
                !.manifest_items =
                    Append(@, Item(blank_id(n), text_href(blank_xhtml(n)),
                                   xhtml_media_type, ""))]
    IN  add_spine_page(t, blank_id(n), side)

\* page item and image item of one image
add_manifest_pair(s, img_name) ==
    LET safe == opf_sanitize_name(splitext(img_name)[1])
    IN  [s EXCEPT !.manifest_items =
            @ \o << Item(page_id(safe), text_href(page_xhtml(safe)),
                         xhtml_media_type, ""),
                    Item(image_id(safe), images_href(img_name),
                         image_media_type(lower(splitext(img_name)[2])), "") >>]

\* the image at index n of the list (0-based, as in the code)
At(files, n) == files[n + 1]

safe_name_of(img_name) == opf_sanitize_name(splitext(img_name)[1])

has_xhtml(txt, img_name) == page_xhtml(safe_name_of(img_name)) \in DOMAIN txt

\* part_letter == "a" and the next file is the corresponding "_b" half
is_double_group_start(files, n) ==
    LET safe_name == safe_name_of(At(files, n))
        ext_lower == lower(splitext(At(files, n))[2])
        has_part  == endswith(safe_name, <<"_", "a">>) \/ endswith(safe_name, <<"_", "b">>)
        part_letter == IF has_part THEN safe_name[Len(safe_name)] ELSE "None"
        root_name == IF has_part THEN SubSeq(safe_name, 1, Len(safe_name) - 2)
                     ELSE safe_name
    IN  /\ part_letter = "a"
        /\ n + 1 < Len(files)
        /\ safe_name_of(At(files, n + 1)) = root_name \o <<"_", "b">>
        /\ lower(splitext(At(files, n + 1))[2]) = ext_lower

is_cover(n) == has_cover /\ n = 0

desired_side_a(rd) == IF rd = rtl THEN "right" ELSE "left"

\* a blank page before every unit that is not first in the spine
needs_blank_before_every_unit(s, rd) == s.last_side # "None"

\* mutant: the last_side test dropped
needs_blank_unguarded(s, rd) == s.next_side # desired_side_a(rd)

\* if last_side is not None and next_side != desired_side_a
needs_blank(s, rd) == s.last_side # "None" /\ s.next_side # desired_side_a(rd)

\* a double spread branch that looks for the page document of half B first
\* and leaves the whole unit out when it is missing
add_double_spread_needs_both(s, files, n, rd) ==
    LET s1 == IF needs_blank(s, rd)
              THEN [add_blank_page(s, s.next_side) EXCEPT
                      !.log = Append(@, Msg("Inserted blank page before double spread",
                                            At(files, n)))]
              ELSE s
        s2 == add_spine_page(add_manifest_pair(s1, At(files, n)),
                             page_id(safe_name_of(At(files, n))), s1.next_side)
        b  == At(files, n + 1)
    IN  IF ~has_xhtml(s.Text, b)
        THEN [s EXCEPT !.log = Append(@, Msg("Warning: XHTML page not found", b))]
        ELSE add_spine_page(add_manifest_pair(s2, b),
                            page_id(safe_name_of(b)), s2.next_side)

\* the double spread branch: blank page if needed, half A, half B
add_double_spread(s, files, n, rd) ==
    LET s1 == IF needs_blank(s, rd)
              THEN [add_blank_page(s, s.next_side) EXCEPT
                      !.log = Append(@, Msg("Inserted blank page before double spread",
                                            At(files, n)))]
              ELSE s
        s2 == add_spine_page(add_manifest_pair(s1, At(files, n)),
                             page_id(safe_name_of(At(files, n))), s1.next_side)
        b  == At(files, n + 1)
    IN  IF ~has_xhtml(s2.Text, b)
        THEN [s2 EXCEPT !.log = Append(@, Msg("Warning: XHTML page not found", b))]
        ELSE add_spine_page(add_manifest_pair(s2, b),
                            page_id(safe_name_of(b)), s2.next_side)

\* the cover branch: page item, cover image item, centered itemref
\* the cover appended through add_spine_page, which records the side
add_cover_recording_side(s, img_name) ==
    LET safe == safe_name_of(img_name)
    IN  add_spine_page(
            [s EXCEPT
               !.manifest_items =
                   @ \o << Item(page_id(safe), text_href(page_xhtml(safe)),
                                xhtml_media_type, ""),
                           Item(cover_id, images_href(img_name),
                                image_media_type(lower(splitext(img_name)[2])),
                                "cover-image") >>],
            page_id(safe), "center")

add_cover(s, img_name) ==
    LET safe == safe_name_of(img_name)
    IN  [s EXCEPT
           !.manifest_items =
               @ \o << Item(page_id(safe), text_href(page_xhtml(safe)),
                            xhtml_media_type, ""),
                       Item(cover_id, images_href(img_name),
                            image_media_type(lower(splitext(img_name)[2])),
                            "cover-image") >>,
           !.spine_items = Append(@, Itemref(page_id(safe), "center"))]

\* the simple page branch
add_simple_page(s, img_name) ==
    add_spine_page(add_manifest_pair(s, img_name),
                   page_id(safe_name_of(img_name)), s.next_side)

SetLayout(s) ==
    /\ manifest_items' = s.manifest_items
    /\ spine_items' = s.spine_items
    /\ last_side' = s.last_side
    /\ next_side' = s.next_side
    /\ blank_counter' = s.blank_counter
    /\ Text' = s.Text
    /\ log' = s.log

\* the listing and the fixed manifest items, up to the start of the loop
OpfBegin ==
    /\ pc = "xhtml"
    /\ k > Len(filenames)
    /\ pc' = "opf"
    /\ image_files' = list_images(Images)
    /\ manifest_items' = fixed_items
    /\ spine_items' = <<>>
    /\ blank_counter' = 0
    /\ last_side' = "None"
    /\ next_side' = "right"
    /\ cover_image_id' = <<>>
    /\ i' = 0
    /\ UNCHANGED <<Images, Text, log, faults, filenames, k, params>>

InOpfLoop == pc = "opf" /\ i < Len(image_files)

\* the skip counted as a page: the side flips
OpfSkipMissing_flips_side ==
    /\ InOpfLoop
    /\ ~has_xhtml(Text, At(image_files, i))
    /\ log' = Append(log, Msg("Warning: XHTML page not found", At(image_files, i)))
    /\ next_side' = IF next_side = "right" THEN "left" ELSE "right"
    /\ i' = i + 1
    /\ UNCHANGED <<Images, Text, faults, pc, filenames, k, image_files, manifest_items,
                   spine_items, last_side, blank_counter, cover_image_id, params>>

\* no page document for the image: warning, next image
OpfSkipMissing ==
    /\ InOpfLoop
    /\ ~has_xhtml(Text, At(image_files, i))
    /\ log' = Append(log, Msg("Warning: XHTML page not found", At(image_files, i)))
    /\ i' = i + 1
    /\ UNCHANGED <<Images, Text, faults, pc, filenames, k, image_files, manifest_items,
                   spine_items, last_side, next_side, blank_counter,
                   cover_image_id, params>>

OpfCover ==
    /\ InOpfLoop
    /\ has_xhtml(Text, At(image_files, i))
    /\ is_cover(i)
    /\ SetLayout(add_cover(Layout, At(image_files, i)))
    /\ cover_image_id' = cover_id
    /\ i' = i + 1
    /\ UNCHANGED <<Images, faults, pc, filenames, k, image_files, params>>

OpfDouble ==
    /\ InOpfLoop
    /\ has_xhtml(Text, At(image_files, i))
    /\ ~is_cover(i)
    /\ is_double_group_start(image_files, i)
    /\ SetLayout(add_double_spread(Layout, image_files, i,
                                   opf_direction(reading_direction)))
    /\ i' = i + 2
    /\ UNCHANGED <<Images, faults, pc, filenames, k, image_files, cover_image_id, params>>

OpfSimple ==
    /\ InOpfLoop
    /\ has_xhtml(Text, At(image_files, i))
    /\ ~is_cover(i)
    /\ ~is_double_group_start(image_files, i)
    /\ SetLayout(add_simple_page(Layout, At(image_files, i)))
    /\ i' = i + 1
    /\ UNCHANGED <<Images, faults, pc, filenames, k, image_files, cover_image_id, params>>

\* the loop is over: content.opf is written from manifest_items and spine_items
OpfEnd ==
    /\ UNCHANGED <<gui, batch>>
    /\ pc = "opf"
    /\ i >= Len(image_files)
    /\ pc' = "done"
    /\ staged' = staged \cup {content_opf}
    /\ UNCHANGED <<Images, Text, log, faults, filenames, k, opf_vars, source,
                   walked, archive, nav_points, input, reading_direction,
                   has_cover, double_page_ratio, original_resolution>>

Next ==
    \/ XhtmlSkipNonRaster
    \/ XhtmlSingle
    \/ XhtmlSplit
    \/ XhtmlSplitFails
    \/ OpfBegin
    \/ OpfSkipMissing
    \/ OpfCover
    \/ OpfDouble
    \/ OpfSimple
    \/ OpfEnd

Spec == Init /\ [][Next]_vars

InitDirections == Start(Folders(DirectionNames), DirectionProfiles, DirectionValues)

SpecDirections == InitDirections /\ [][Next]_vars

InitBook == Start(BookFolders, BookProfiles, DirectionPool)

SpecBook == InitBook /\ [][Next]_vars

InitNames == Start({{f} : f \in AnyNames}, DirectionProfiles, DirectionPool)

SpecNames == InitNames /\ [][Next]_vars

(***************************************************************************)
(* copy_images_to_temp_images                                              *)
(***************************************************************************)
copy_image_extensions == {jpg, jpeg, png, gif, bmp, webp, svg}

cover_stem == <<"c", "o", "v", "e", "r">>

\* the orders in which os.listdir may return the files of a folder
listdir(folder) ==
    {q \in [1..Cardinality(DOMAIN folder) -> DOMAIN folder] :
        \A m, n \in DOMAIN q : m # n => q[m] # q[n]}

copy_image_files(listing) ==
    SelectSeq(listing, LAMBDA f : lower(splitext(f)[2]) \in copy_image_extensions)

cover_files(listing) ==
    SelectSeq(copy_image_files(listing), LAMBDA f : lower(splitext(f)[1]) = cover_stem)

other_files(listing) ==
    SelectSeq(copy_image_files(listing), LAMBDA f : lower(splitext(f)[1]) # cover_stem)

\* the while loop that makes the generated name unique
RECURSIVE unique_dest_name(_, _, _, _)
unique_dest_name(dest, dest_name, base_ext, suffix) ==
    IF dest_name \in DOMAIN dest
    THEN unique_dest_name(dest, base_ext[1] \o <<"_">> \o str(suffix) \o base_ext[2],
                          base_ext, suffix + 1)
    ELSE dest_name

\* the name a cover is stored under: 0.ext, 0_1.ext, ...
cover_dest_name(dest, idx, filename) ==
    LET ext == lower(splitext(filename)[2])
        base_name == IF idx = 0 THEN <<"0">> ELSE <<"0", "_">> \o str(idx)
    IN  unique_dest_name(dest, base_name \o ext, <<base_name, ext>>, 1)

\* the loop over cover_files, from position idx (0-based) on
RECURSIVE copy_covers(_, _, _, _)
copy_covers(r, src, covers, idx) ==
    IF idx >= Len(covers) THEN r
    ELSE LET dest_name == cover_dest_name(r.Images, idx, covers[idx + 1])
         IN  copy_covers([Images |-> (dest_name :> src[covers[idx + 1]]) @@ r.Images,
                          log |-> Append(r.log, Msg("Copied (cover renamed)", dest_name))],
                         src, covers, idx + 1)

\* the other files keep their names, then the covers are renamed
copy_images(src, listing) ==
    LET others == {other_files(listing)[n] : n \in DOMAIN other_files(listing)}
    IN  copy_covers([Images |-> [f \in others |-> src[f]], log |-> <<>>],
                    src, cover_files(listing), 0)

\* copy_images_to_temp_images, followed by the entry of generate_xhtml_pages
\* (the listing of the Images folder is frozen)
CopyImages ==
    /\ UNCHANGED <<gui, batch>>
    /\ pc = "copy"
    /\ \E listing \in listdir(source) :
          LET r == copy_images(source, listing)
          IN  /\ Images' = r.Images
              /\ input' = r.Images
              /\ log' = log \o r.log
              /\ filenames' = sorted(DOMAIN r.Images)
    /\ pc' = "xhtml"
    /\ UNCHANGED <<source, staged, walked, archive, nav_points, Text, faults,
                   reading_direction, has_cover, double_page_ratio,
                   original_resolution, k, opf_vars>>

\* Source folders: covers in both cases, names that sort before and after
\* "0", a vector image and a file that is no image.
SourceNames ==
    { cover_stem \o jpg,
      <<"C", "o", "v", "e", "r", ".", "P", "N", "G">>,
      <<"0">> \o jpg,
      <<"-", "1">> \o jpg,
      <<"p", "1">> \o jpg,
      <<"s", "1">> \o svg,
      <<"r", ".", "t", "x", "t">> }

\* the state in which copy_images_to_temp_images is called, after
\* initial_setup emptied the staging tree
InitCopy ==
    /\ GuiAtRest
    /\ BatchAtRest
    /\ \E names \in Folders(SourceNames), p \in DirectionProfiles :
          /\ source \in [names -> p.contents]
          /\ double_page_ratio = p.double_page_ratio
          /\ original_resolution = p.original_resolution
    /\ staged = setup_files
    /\ walked = {}
    /\ archive = <<>>
    /\ nav_points = <<>>
    /\ Images = <<>>
    /\ input = <<>>
    /\ Text = <<>>
    /\ log = <<>>
    /\ faults = 0
    /\ reading_direction \in DirectionPool
    /\ has_cover \in BOOLEAN
    /\ pc = "copy"
    /\ filenames = <<>>
    /\ k = 1
    /\ image_files = <<>>
    /\ i = 0
    /\ manifest_items = <<>>
    /\ spine_items = <<>>
    /\ last_side = "None"
    /\ next_side = "right"
    /\ blank_counter = 0
    /\ cover_image_id = <<>>

NextCopy == CopyImages \/ Next

SpecCopy == InitCopy /\ [][NextCopy]_vars

(***************************************************************************)

(* generate_toc_ncx, generate_nav_xhtml, generate_style_css                *)
(***************************************************************************)
\* the files of temp/
temp_files(stg, imgs, txt) ==
    stg \cup {<<images_dir, f>> : f \in DOMAIN imgs}
        \cup {<<text_dir, d>> : d \in DOMAIN txt}

\* the *.xhtml files of Text, sorted
xhtml_files(txt) ==
    sorted({d \in DOMAIN txt : endswith(lower(d), <<".", "x", "h", "t", "m", "l">>)})

\* one navPoint per page: id="navPoint-{i}" playOrder="{i}" and
\* <content src="Text/{xhtml}"/>, i counted from 1
toc_nav_points(files) ==
    [n \in DOMAIN files |-> [id |-> n, playOrder |-> n, src |-> text_href(files[n])]]

\* steps 5 and 6 of the pipeline: toc.ncx, nav.xhtml (only when Text holds a
\* page) and style.css are written
GenerateNavigation ==
    /\ UNCHANGED <<gui, batch>>
    /\ pc = "done"
    /\ pc' = "zip"
    /\ nav_points' = toc_nav_points(xhtml_files(Text))
    /\ IF xhtml_files(Text) = <<>>
       THEN /\ staged' = staged \cup {toc_ncx, style_css}
            /\ log' = Append(log, Msg("No XHTML files found in Text/", <<>>))
       ELSE /\ staged' = staged \cup {toc_ncx, nav_xhtml, style_css}
            /\ log' = log
    /\ UNCHANGED <<Images, Text, faults, filenames, k, opf_vars, source, walked,
                   archive, input, reading_direction, has_cover,
                   double_page_ratio, original_resolution>>

\* steps 3 to 6 of the pipeline
NextToc == Next \/ GenerateNavigation

SpecToc == Init /\ [][NextToc]_vars

(***************************************************************************)
(* create_epub_from_temp                                                   *)
(***************************************************************************)
temp_dir == "temp"

\* os.path.join(root, filename) for a file of the tree
full_path(f) == <<temp_dir>> \o f

mimetype_path == full_path(mimetype_file)

\* os.path.relpath(full_path, temp_dir)
relpath(path, start) == IF path[1] = start THEN Tail(path) ELSE path

\* the test that skips the file already added
is_mimetype_never(path) == FALSE

\* os.path.abspath(full_path) == os.path.abspath(mimetype_path)
is_mimetype(path) == path = mimetype_path

Entry(arcname, compress_type) == [arcname |-> arcname, compress_type |-> compress_type]

\* directory d is D or lies below D
under(d, D) == D = root_dir \/ d = D \/ dirname(d) = D

\* os.walk is top-down: it may yield f next when no file of a directory above
\* f's is still to come and every directory it has entered and not finished
\* contains f; the order inside a directory and among sibling directories
\* is the file system's
walk_next(f, files, done) ==
    /\ f \in files \ done
    /\ \A g \in files \ done : (g[1] # f[1]) => ~under(f[1], g[1])
    /\ \A D \in {g[1] : g \in files} :
          ((\E g \in done : under(g[1], D)) /\ (\E g \in files \ done : under(g[1], D)))
             => under(f[1], D)

\* the archive is opened and mimetype is written first, stored.  temp/ and
\* temp/mimetype exist in every state that reaches this point, so neither
\* FileNotFoundError is raised.
ZipMimetype ==
    /\ UNCHANGED <<gui, batch>>
    /\ pc = "zip"
    /\ archive = <<>>
    /\ mimetype_file \in temp_files(staged, Images, Text)
    /\ archive' = << Entry(mimetype_file, "ZIP_STORED") >>
    /\ UNCHANGED <<Images, Text, log, faults, pc, filenames, k, opf_vars, source,
                   staged, walked, nav_points, input, reading_direction,
                   has_cover, double_page_ratio, original_resolution>>

\* one file of the walk: skipped when it is mimetype, added deflated otherwise
ZipWalk ==
    /\ UNCHANGED <<gui, batch>>
    /\ pc = "zip"
    /\ archive # <<>>
    /\ \E f \in temp_files(staged, Images, Text) :
          /\ walk_next(f, temp_files(staged, Images, Text), walked)
          /\ walked' = walked \cup {f}
          /\ archive' = IF is_mimetype(full_path(f))
                        THEN archive
                        ELSE Append(archive, Entry(relpath(full_path(f), temp_dir),
                                                   "ZIP_DEFLATED"))
    /\ UNCHANGED <<Images, Text, log, faults, pc, filenames, k, opf_vars, source,
                   staged, nav_points, input, reading_direction, has_cover,
                   double_page_ratio, original_resolution>>

\* the walk is over: the archive is closed and temp/ is removed (or the
\* removal fails and a warning is printed)
ZipClose ==
    /\ UNCHANGED <<gui, batch>>
    /\ pc = "zip"
    /\ archive # <<>>
    /\ walked = temp_files(staged, Images, Text)
    /\ pc' = "epub"
    /\ \E removed \in BOOLEAN :
          IF removed
          THEN /\ Images' = <<>>
               /\ Text' = <<>>
               /\ staged' = {}
               /\ log' = log \o << Msg("EPUB created", <<>>),
                                   Msg("Temporary folder removed", <<>>) >>
               /\ faults' = faults
          ELSE /\ faults < MaxFaults
               /\ UNCHANGED <<Images, Text, staged>>
               /\ log' = log \o << Msg("EPUB created", <<>>),
                                   Msg("Warning: could not remove temp folder", <<>>) >>
               /\ faults' = faults + 1
    /\ UNCHANGED <<filenames, k, opf_vars, source, walked, archive, nav_points,
                   input, reading_direction, has_cover, double_page_ratio,
                   original_resolution>>

\* Runs packed into an archive: an empty folder, a folder of one page and a
\* folder of one vector image.
PackNames == { <<"p", "1">> \o jpg, <<"s", "1">> \o svg }

InitPack == Start({{}} \cup {{f} : f \in PackNames}, DirectionProfiles, {rtl})

NextPack ==
    \/ Next
    \/ GenerateNavigation
    \/ ZipMimetype
    \/ ZipWalk
    \/ ZipClose

SpecPack == InitPack /\ [][NextPack]_vars

(***************************************************************************)

(* run_pipeline_folder: runs that follow one another on one base path      *)
(***************************************************************************)
\* the stages in which a run is under way
Running == {"copy", "xhtml", "opf", "done", "zip"}

\* Source folders of the runs: an empty folder, one page, one vector image.
RunNames == PackNames

RunSources ==
    UNION { [names -> p.contents] :
              names \in {{}} \cup {{f} : f \in RunNames}, p \in DirectionProfiles }

\* a variant of initial_setup that creates the folders and the two files
\* over a tree that is already there
initial_setup_keeps_tree(stg, imgs, txt) ==
    [staged |-> stg \cup setup_files, Images |-> imgs, Text |-> txt]

\* initial_setup: temp/ is removed when it exists, then created again with
\* its folders, mimetype and META-INF/container.xml
initial_setup(stg, imgs, txt) ==
    [staged |-> setup_files, Images |-> <<>>, Text |-> <<>>]

\* a run starts: the source folder exists and initial_setup succeeds
RunStart ==
    /\ UNCHANGED <<gui, batch>>
    /\ pc \notin Running
    /\ source' \in RunSources
    /\ staged' = initial_setup(staged, Images, Text).staged
    /\ Images' = initial_setup(staged, Images, Text).Images
    /\ Text' = initial_setup(staged, Images, Text).Text
    /\ walked' = {}
    /\ archive' = <<>>
    /\ nav_points' = <<>>
    /\ input' = <<>>
    /\ log' = <<>>
    /\ filenames' = <<>>
    /\ k' = 1
    /\ image_files' = <<>>
    /\ i' = 0
    /\ manifest_items' = <<>>
    /\ spine_items' = <<>>
    /\ last_side' = "None"
    /\ next_side' = "right"
    /\ blank_counter' = 0
    /\ cover_image_id' = <<>>
    /\ pc' = "copy"
    /\ UNCHANGED <<faults, reading_direction, has_cover, double_page_ratio,
                   original_resolution>>

\* a run that does not start: the source folder does not exist (ValueError)
\* or temp/ cannot be removed; the staging tree stays as it was
RunStartFails ==
    /\ UNCHANGED <<gui, batch>>
    /\ pc \notin Running
    /\ pc' = "failed"
    /\ archive' = <<>>
    /\ walked' = {}
    /\ log' = << Msg("Error", <<>>) >>
    /\ UNCHANGED <<source, staged, nav_points, Images, Text, input, faults,
                   reading_direction, has_cover, double_page_ratio,
                   original_resolution, filenames, k, opf_vars>>

\* an exception no stage catches (a copy, a page document, content.opf, a
\* navigation file or an archive entry cannot be written): it propagates to
\* the caller and everything stays as it is, the archive written so far
\* included
Abort ==
    /\ UNCHANGED <<gui, batch>>
    /\ pc \in Running
    /\ faults < MaxFaults
    /\ faults' = faults + 1
    /\ pc' = "failed"
    /\ log' = Append(log, Msg("Error", <<>>))
    /\ UNCHANGED <<source, staged, walked, archive, nav_points, Images, Text,
                   input, reading_direction, has_cover, double_page_ratio,
                   original_resolution, filenames, k, opf_vars>>

\* before the first run: no staging tree
NoRun ==
    /\ \E p \in DirectionProfiles :
          /\ double_page_ratio = p.double_page_ratio
          /\ original_resolution = p.original_resolution
    /\ source = <<>>
    /\ staged = {}
    /\ walked = {}
    /\ archive = <<>>
    /\ nav_points = <<>>
    /\ Images = <<>>
    /\ input = <<>>
    /\ Text = <<>>
    /\ log = <<>>
    /\ faults = 0
    /\ reading_direction = rtl
    /\ has_cover \in BOOLEAN
    /\ pc = "idle"
    /\ filenames = <<>>
    /\ k = 1
    /\ image_files = <<>>
    /\ i = 0
    /\ manifest_items = <<>>
    /\ spine_items = <<>>
    /\ last_side = "None"
    /\ next_side = "right"
    /\ blank_counter = 0
    /\ cover_image_id = <<>>

InitRuns == NoRun /\ GuiAtRest /\ BatchAtRest

NextRuns ==
    \/ RunStart
    \/ RunStartFails
    \/ CopyImages
    \/ Next
    \/ GenerateNavigation
    \/ ZipMimetype
    \/ ZipWalk
    \/ ZipClose
    \/ Abort

SpecRuns == InitRuns /\ [][NextRuns]_vars

(***************************************************************************)

(* EpubApp: the window of panel2epub_gui.py                                *)
(***************************************************************************)
\* the variables of the pipeline, which the window does not touch: a worker
\* thread appears here by its start and by its outcome
pipeline == <<source, staged, walked, archive, nav_points, Images, Text, input,
              log, faults, reading_direction, has_cover, double_page_ratio,
              original_resolution, pc, filenames, k, opf_vars, batch>>

\* values of the source field: empty, an existing folder, the display name
\* of a CBZ selection (not a folder)
SourceValues == {"", "folder", "a.cbz"}

Fields ==
    [var_source_mode |-> {"folder", "cbz"},
     var_source      |-> SourceValues,
     var_title       |-> {"", "title"},
     var_creator     |-> {"", "creator"}]

\* os.path.isdir(source_folder)
isdir(path) == path = "folder"

\* the window as EpubApp.__init__ builds it
InitGui ==
    /\ NoRun
    /\ BatchAtRest
    /\ form = [var_source_mode |-> "cbz", var_source |-> "",
               var_title |-> "", var_creator |-> "", cbz_files |-> <<>>]
    /\ btn_start = "normal"
    /\ gui_pc = "mainloop"
    /\ threads = <<>>
    /\ after_queue = <<>>
    /\ messagebox = <<>>
    /\ txt_log = "empty"

\* the main thread handles an event of the user: it is in the main loop and
\* no message box holds the grab
UserEvent == gui_pc = "mainloop" /\ messagebox = <<>>

\* the user types in an entry or picks a mode
UserEdits ==
    /\ UserEvent
    /\ \E field \in DOMAIN Fields :
          \E value \in Fields[field] \ {form[field]} :
              form' = [form EXCEPT ![field] = value]
    /\ UNCHANGED <<btn_start, gui_pc, threads, after_queue, messagebox, txt_log,
                   pipeline>>

\* browse_source with a selection made
browse_source ==
    /\ UserEvent
    /\ form' = IF form.var_source_mode = "folder"
               THEN [form EXCEPT !.var_source = "folder", !.cbz_files = <<>>]
               ELSE [form EXCEPT !.var_source = "a.cbz", !.cbz_files = <<"a.cbz">>]
    /\ form' # form
    /\ UNCHANGED <<btn_start, gui_pc, threads, after_queue, messagebox, txt_log,
                   pipeline>>

\* the checks of on_start that end in messagebox.showerror and return
on_start_rejects(f) ==
    \/ f.var_creator = ""
    \/ f.var_source = ""
    \/ f.var_source_mode = "folder" /\ (~isdir(f.var_source) \/ f.var_title = "")
    \/ f.var_source_mode # "folder" /\ f.cbz_files = <<>>

\* a start button that stays as it is while the worker runs
start_button_left_enabled == "normal"

\* self.btn_start.config(state="disabled")
start_button_while_running == "disabled"

\* messagebox.showinfo(title, message) or messagebox.showerror(title, message)
Box(title, message) == [title |-> title, message |-> message]

\* the button is pressed (a disabled button runs no command) and on_start
\* returns after an error box
OnStartRejected ==
    /\ UserEvent
    /\ btn_start = "normal"
    /\ on_start_rejects(form)
    /\ messagebox' = Append(messagebox, Box("Error", "Please"))
    /\ UNCHANGED <<form, btn_start, gui_pc, threads, after_queue, txt_log, pipeline>>

\* the button is pressed and on_start passes its checks: the log is cleared
\* and the button disabled
OnStartAccepted ==
    /\ UserEvent
    /\ btn_start = "normal"
    /\ ~on_start_rejects(form)
    /\ txt_log' = "empty"
    /\ btn_start' = start_button_while_running
    /\ gui_pc' = "on_start"
    /\ UNCHANGED <<form, threads, after_queue, messagebox, pipeline>>

\* t = threading.Thread(target=worker, daemon=True); t.start(): on_start
\* returns to the main loop
ThreadStart ==
    /\ gui_pc = "on_start"
    /\ Len(threads) < MaxWorkers
    /\ threads' = Append(threads, [mode |-> form.var_source_mode])
    /\ gui_pc' = "mainloop"
    /\ UNCHANGED <<form, btn_start, after_queue, messagebox, txt_log, pipeline>>

Log == [callback |-> "log", success |-> TRUE, message |-> "text"]

Finish(success, message) ==
    [callback |-> "_finish", success |-> success, message |-> message]

\* the results run_pipeline_cbz_list or run_pipeline_folder may return: the
\* paths of the EPUB files written
Results == {<<>>, <<"a.epub">>}

\* a worker that reports success whatever the pipeline returned
worker_success_always(mode, epubs) == TRUE

\* done(True, ...) after run_pipeline_folder; `if epubs:` after
\* run_pipeline_cbz_list
worker_success(mode, epubs) == mode = "folder" \/ epubs # <<>>

\* the message handed to done
worker_message(mode, epubs) ==
    IF mode = "folder" THEN "EPUB generated"
    ELSE IF epubs # <<>> THEN "EPUB files generated"
         ELSE "No EPUB generated"

drop(seq, n) == [m \in 1..(Len(seq) - 1) |-> IF m < n THEN seq[m] ELSE seq[m + 1]]

\* thread_safe_log from a running pipeline: self.after(0, self.log, text)
thread_safe_log ==
    /\ threads # <<>>
    /\ Len(after_queue) < MaxQueue
    /\ after_queue' = Append(after_queue, Log)
    /\ UNCHANGED <<form, btn_start, gui_pc, threads, messagebox, txt_log, pipeline>>

\* the pipeline of a worker returns: done(True, ...), or done(False, ...)
\* when a CBZ batch produced nothing
WorkerReturns ==
    /\ \E t \in DOMAIN threads, epubs \in Results :
          /\ threads[t].mode = "folder" => epubs # <<>>
          /\ threads' = drop(threads, t)
          /\ after_queue' = Append(after_queue,
                                   Finish(worker_success(threads[t].mode, epubs),
                                          worker_message(threads[t].mode, epubs)))
    /\ UNCHANGED <<form, btn_start, gui_pc, messagebox, txt_log, pipeline>>

\* the pipeline of a worker raises: the traceback is logged, then
\* done(False, str(e))
WorkerRaises ==
    /\ \E t \in DOMAIN threads :
          /\ threads' = drop(threads, t)
          /\ after_queue' = after_queue \o << Log, Finish(FALSE, "str(e)") >>
    /\ UNCHANGED <<form, btn_start, gui_pc, messagebox, txt_log, pipeline>>

\* the event loop (the main loop or the loop of an open message box) runs the
\* first callback of the queue: log inserts text, _finish sets the button to
\* normal and opens the final message box
AfterCallback ==
    /\ gui_pc = "mainloop"
    /\ after_queue # <<>>
    /\ after_queue' = Tail(after_queue)
    /\ IF Head(after_queue).callback = "log"
       THEN /\ txt_log' = "text"
            /\ UNCHANGED <<btn_start, messagebox>>
       ELSE /\ btn_start' = "normal"
            /\ messagebox' = Append(messagebox,
                   Box(IF Head(after_queue).success THEN "Success" ELSE "Error",
                       Head(after_queue).message))
            /\ UNCHANGED txt_log
    /\ UNCHANGED <<form, gui_pc, threads, pipeline>>

\* the user closes the message box on top
MessageBoxClosed ==
    /\ messagebox # <<>>
    /\ messagebox' = SubSeq(messagebox, 1, Len(messagebox) - 1)
    /\ UNCHANGED <<form, btn_start, gui_pc, threads, after_queue, txt_log, pipeline>>

NextGui ==
    \/ UserEdits
    \/ browse_source
    \/ OnStartRejected
    \/ OnStartAccepted
    \/ ThreadStart
    \/ thread_safe_log
    \/ WorkerReturns
    \/ WorkerRaises
    \/ AfterCallback
    \/ MessageBoxClosed

SpecGui == InitGui /\ [][NextGui]_vars

\* on_start runs to its end, the pipeline of a worker returns or raises, and
\* the event loop runs the callbacks of its queue
SpecGuiLive ==
    InitGui /\ [][NextGui]_vars
        /\ WF_vars(ThreadStart)
        /\ WF_vars(WorkerReturns \/ WorkerRaises)
        /\ WF_vars(AfterCallback)

(***************************************************************************)

(* run_pipeline_cbz_list: a batch of CBZ archives                          *)
(***************************************************************************)
cbz == <<".", "c", "b", "z">>

\* Paths of a batch: two archives, a file that is not a ZIP archive, and a
\* path that is not a file.
CbzGood == { <<"a">> \o cbz, <<"b">> \o cbz }

CbzBroken == { <<"x">> \o cbz }

CbzMissing == { <<"m">> \o cbz }

CbzPaths == CbzGood \cup CbzBroken \cup CbzMissing

RECURSIVE Batches(_)
Batches(n) ==
    IF n = 0 THEN { <<>> }
    ELSE Batches(n - 1) \cup
         { Append(b, p) : b \in {c \in Batches(n - 1) : Len(c) = n - 1}, p \in CbzPaths }

\* os.path.isfile(cbz_path)
cbz_isfile(path) == path \notin CbzMissing

\* os.path.splitext(os.path.basename(cbz_path))[0]
base_name(path) == splitext(path)[1]

\* root_base_path/<base_name>_extract
extract_dir(path) == base_name(path) \o <<"_", "e", "x", "t", "r", "a", "c", "t">>

RECURSIVE lstrip(_)
lstrip(s) == IF s # <<>> /\ Head(s) = " " THEN lstrip(Tail(s)) ELSE s

RECURSIVE rstrip(_)
rstrip(s) ==
    IF s # <<>> /\ s[Len(s)] = " " THEN rstrip(SubSeq(s, 1, Len(s) - 1)) ELSE s

\* letters, digits, spaces, dashes and underscores kept, the rest replaced,
\* then .strip() or "book"
sanitize_filename(name) ==
    LET kept == [n \in DOMAIN name |->
                    IF isalnum(name[n]) \/ name[n] \in {" ", "-", "_"}
                    THEN name[n] ELSE "_"]
        stripped == lstrip(rstrip(kept))
    IN  IF stripped = <<>> THEN <<"b", "o", "o", "k">> ELSE stripped

\* the path run_pipeline_folder returns for the title base_name
epub_path(path) == sanitize_filename(base_name(path)) \o <<".", "e", "p", "u", "b">>

\* everything a batch leaves alone but the log
outside_batch ==
    <<source, staged, walked, archive, nav_points, Images, Text, input, faults,
      reading_direction, has_cover, double_page_ratio, original_resolution, pc,
      filenames, k, opf_vars, gui>>

\* run_pipeline_cbz_list is called with one of the batches
InitBatch ==
    /\ NoRun
    /\ GuiAtRest
    /\ cbz_paths \in Batches(MaxBatch)
    /\ cbz_idx = 1
    /\ extract_dirs = {}
    /\ generated_epubs = <<>>
    /\ batch_pc = "idle"

\* up to the loop: no path raises ValueError
BatchBegin ==
    /\ batch_pc = "idle"
    /\ IF cbz_paths = <<>>
       THEN /\ batch_pc' = "raised"
            /\ log' = log
       ELSE /\ batch_pc' = "loop"
            /\ log' = Append(log, Msg("=== Converting CBZ file(s) ===", <<>>))
    /\ UNCHANGED <<cbz_paths, cbz_idx, extract_dirs, generated_epubs, outside_batch>>

InBatchLoop == batch_pc = "loop" /\ cbz_idx <= Len(cbz_paths)

\* a path that is not a file: logged, next path
BatchSkip ==
    /\ InBatchLoop
    /\ ~cbz_isfile(cbz_paths[cbz_idx])
    /\ log' = Append(log, Msg("File not found, skipping", cbz_paths[cbz_idx]))
    /\ cbz_idx' = cbz_idx + 1
    /\ UNCHANGED <<cbz_paths, extract_dirs, generated_epubs, batch_pc, outside_batch>>

\* os.makedirs(extract_dir), then zipfile.ZipFile(cbz_path).extractall: a
\* file that is not an archive raises BadZipFile, outside the try statement
BatchExtract ==
    /\ InBatchLoop
    /\ cbz_isfile(cbz_paths[cbz_idx])
    /\ extract_dirs' = extract_dirs \cup {extract_dir(cbz_paths[cbz_idx])}
    /\ log' = Append(log, Msg("Extracting", cbz_paths[cbz_idx]))
    /\ batch_pc' = IF cbz_paths[cbz_idx] \in CbzBroken THEN "raised" ELSE "pipeline"
    /\ UNCHANGED <<cbz_paths, cbz_idx, generated_epubs, outside_batch>>

\* the finally clause: rmtree(extract_dir), or the removal fails and is
\* logged
cleanup(removed) ==
    IF removed
    THEN /\ extract_dirs' = extract_dirs \ {extract_dir(cbz_paths[cbz_idx])}
         /\ log' = Append(log, Msg("Removed extraction folder", cbz_paths[cbz_idx]))
    ELSE /\ extract_dirs' = extract_dirs
         /\ log' = Append(log, Msg("Could not remove extraction folder",
                                   cbz_paths[cbz_idx]))

\* run_pipeline_folder returns: the path is appended, the extraction folder
\* cleaned up, next path
BatchPipelineReturns ==
    /\ batch_pc = "pipeline"
    /\ generated_epubs' = Append(generated_epubs, epub_path(cbz_paths[cbz_idx]))
    /\ \E removed \in BOOLEAN : cleanup(removed)
    /\ cbz_idx' = cbz_idx + 1
    /\ batch_pc' = "loop"
    /\ UNCHANGED <<cbz_paths, outside_batch>>

\* run_pipeline_folder raises: the extraction folder is cleaned up and the
\* exception leaves run_pipeline_cbz_list
BatchPipelineRaises ==
    /\ batch_pc = "pipeline"
    /\ \E removed \in BOOLEAN : cleanup(removed)
    /\ batch_pc' = "raised"
    /\ UNCHANGED <<cbz_paths, cbz_idx, generated_epubs, outside_batch>>

\* return generated_epubs
BatchReturn ==
    /\ batch_pc = "loop"
    /\ cbz_idx > Len(cbz_paths)
    /\ batch_pc' = "returned"
    /\ UNCHANGED <<cbz_paths, cbz_idx, extract_dirs, generated_epubs, log,
                   outside_batch>>

NextBatch ==
    \/ BatchBegin
    \/ BatchSkip
    \/ BatchExtract
    \/ BatchPipelineReturns
    \/ BatchPipelineRaises
    \/ BatchReturn

SpecBatch == InitBatch /\ [][NextBatch]_vars

(***************************************************************************)

(* Properties                                                              *)
(***************************************************************************)
\* the spine as <<idref, side>> pairs
SpineView == [n \in DOMAIN spine_items |-> <<spine_items[n].idref, spine_items[n].side>>]

IsBlankRef(e) ==
    Len(e.idref) > 11 /\ SubSeq(e.idref, 1, 11) = SubSeq(blank_id(0), 1, 11)

NonCenter == SelectSeq(spine_items, LAMBDA e : e.side # "center")

\* the itemrefs the step under way appends
NewRefs == SubSeq(spine_items', Len(spine_items) + 1, Len(spine_items'))

\* the messages the step under way prints
NewLog == SubSeq(log', Len(log) + 1, Len(log'))

Opposite(side) == IF side = "right" THEN "left" ELSE "right"

\* the spine builder is about to process a double-spread unit
UnitAt ==
    /\ InOpfLoop
    /\ has_xhtml(Text, At(image_files, i))
    /\ ~is_cover(i)
    /\ is_double_group_start(image_files, i)

DesiredSide == IF lower(reading_direction) = ltr THEN "left" ELSE "right"

p1_jpg == <<"p", "1">> \o jpg
p2_jpg == <<"p", "2">> \o jpg
s1_jpg == <<"s", "1">> \o jpg

\* the image decodes and is classified as a double page / as a single page
InputDouble(f) ==
    /\ input[f].ok
    /\ input[f].w > 1
    /\ input[f].w * double_page_ratio[2] >= double_page_ratio[1] * input[f].h

InputSingle(f) ==
    /\ input[f].ok
    /\ input[f].w * double_page_ratio[2] < double_page_ratio[1] * input[f].h

NoSplitError == \A n \in DOMAIN log : log[n].msg # "Error splitting double page"

Ref(name, side) == <<page_id(name), side>>

\* C1: the spine entries other than the center cover alternate right, left,
\* right, ... starting at right, blank pages counted like any other entry.
C1_SidesAlternate ==
    \A n \in DOMAIN NonCenter :
        NonCenter[n].side = IF n % 2 = 1 THEN "right" ELSE "left"

C1_Witness ==
    /\ pc = "done"
    /\ Len(spine_items) >= 5
    /\ spine_items[1].side = "center"
    /\ \E n \in DOMAIN spine_items : IsBlankRef(spine_items[n])

\* C2: before a double-spread unit a blank page is inserted exactly when
\* next_side differs from the unit's desired leading side, and the first
\* spine entry is never a blank page.
C2_BlankIffMismatch ==
    [][ /\ UnitAt =>
            ( (/\ blank_counter' = blank_counter + 1
               /\ IsBlankRef(NewRefs[1]))
              <=> next_side # DesiredSide )
        /\ (spine_items = <<>> /\ spine_items' # <<>>) => ~IsBlankRef(spine_items'[1])
      ]_vars

\* C3: the _a half of every emitted unit is on the desired leading side and
\* the _b half on the opposite side.
C3_HalvesOnDesiredSides ==
    [][ UnitAt =>
          \A n \in DOMAIN NewRefs :
             /\ NewRefs[n].idref = page_id(safe_name_of(At(image_files, i)))
                  => NewRefs[n].side = DesiredSide
             /\ NewRefs[n].idref = page_id(safe_name_of(At(image_files, i + 1)))
                  => NewRefs[n].side = Opposite(DesiredSide)
      ]_vars

\* the image at the current position is an _a image followed by its _b
\* sibling (same root name, same extension), both with page documents
PairAt ==
    /\ InOpfLoop
    /\ i + 1 < Len(image_files)
    /\ LET a == splitext(At(image_files, i))
           b == splitext(At(image_files, i + 1))
       IN  /\ endswith(a[1], <<"_", "a">>)
           /\ b[1] = SubSeq(a[1], 1, Len(a[1]) - 2) \o <<"_", "b">>
           /\ a[2] = b[2]
    /\ has_xhtml(Text, At(image_files, i))
    /\ has_xhtml(Text, At(image_files, i + 1))

\* C4: such a pair is emitted as one unit: the _a entry immediately followed
\* by the _b entry, on opposite left/right sides, at every position.
C4_PairIsOneUnit ==
    [][ PairAt =>
          /\ i' = i + 2
          /\ Len(NewRefs) >= 2
          /\ LET a == NewRefs[Len(NewRefs) - 1]
                 b == NewRefs[Len(NewRefs)]
             IN  /\ a.idref = page_id(safe_name_of(At(image_files, i)))
                 /\ b.idref = page_id(safe_name_of(At(image_files, i + 1)))
                 /\ a.side \in {"left", "right"}
                 /\ b.side = Opposite(a.side)
      ]_vars

\* Scenarios A and C: s1.jpg single and p2.jpg double, no cover, and the
\* split of p2.jpg ran to its end
ScenarioAC(direction) ==
    /\ DOMAIN input = {s1_jpg, p2_jpg}
    /\ InputSingle(s1_jpg)
    /\ InputDouble(p2_jpg)
    /\ reading_direction = direction
    /\ ~has_cover
    /\ NoSplitError
    /\ pc = "done"

\* C5, as claimed: Scenario A yields s1 -> right, page_blank_1 -> left,
\* p2_a -> right, p2_b -> left.
C5_ScenarioA_Claimed ==
    ScenarioAC(rtl) =>
        SpineView = << Ref(<<"s", "1">>, "right"), <<blank_id(1), "left">>,
                       Ref(<<"p", "2", "_", "a">>, "right"),
                       Ref(<<"p", "2", "_", "b">>, "left") >>

\* C5, amended: the sorted image list is p2_a, p2_b, s1, so Scenario A yields
\* p2_a -> right, p2_b -> left, s1 -> right and no blank page.
C5_ScenarioA ==
    ScenarioAC(rtl) =>
        /\ SpineView = << Ref(<<"p", "2", "_", "a">>, "right"),
                          Ref(<<"p", "2", "_", "b">>, "left"),
                          Ref(<<"s", "1">>, "right") >>
        /\ blank_counter = 0

C5_Witness == ScenarioAC(rtl)

ScenarioB ==
    /\ DOMAIN input = {p1_jpg}
    /\ InputDouble(p1_jpg)
    /\ reading_direction = rtl
    /\ ~has_cover
    /\ NoSplitError
    /\ pc = "done"

\* C7: Scenario B (rtl, no cover, the double image p1.jpg alone) yields
\* p1_a -> right, p1_b -> left; blank_counter stays 0 and the manifest has
\* no page_blank item.
C7_ScenarioB ==
    ScenarioB =>
        /\ SpineView = << Ref(<<"p", "1", "_", "a">>, "right"),
                          Ref(<<"p", "1", "_", "b">>, "left") >>
        /\ blank_counter = 0
        /\ \A n \in DOMAIN manifest_items :
              ~IsBlankRef([idref |-> manifest_items[n].id])

C7_Witness == ScenarioB

\* a step of generate_xhtml_pages that processes a raster image
ProbeStep == pc = "xhtml" /\ k' = k + 1 /\ IsRaster(filenames[k])

SplitErrorStep ==
    /\ ProbeStep
    /\ \E n \in DOMAIN NewLog : NewLog[n].msg = "Error splitting double page"

\* the single page document of file f with viewport w x h
SingleDoc(f, w, h) ==
    page_xhtml(sanitize_name(splitext(f)[1])) :> [vw |-> w, vh |-> h, img |-> f]

\* C8: a split that fails leaves no trace: the Images folder is as before
\* (no half image, the original kept) and the Text folder gains exactly the
\* single page document of the image.
C8_FailedSplitLeavesNoTrace ==
    [][ SplitErrorStep =>
          LET f  == filenames[k]
              wh == probe(Images, f)
          IN  /\ Images' = Images
              /\ Text' = SingleDoc(f, wh[1], wh[2]) @@ Text
      ]_vars

\* C9: every image the pass probes is a file of the snapshot with the
\* content it had before the first mutation, never a file written by a split.
C9_OnlyOriginalsProbed ==
    [][ ProbeStep =>
          /\ filenames[k] \in DOMAIN input
          /\ Images[filenames[k]] = input[filenames[k]]
          /\ Images[filenames[k]].crop = "none"
      ]_vars

\* the step under way entered the split branch
SplitAttempted ==
    \E n \in DOMAIN NewLog :
        NewLog[n].msg \in {"Created XHTML page (split)", "Error splitting double page"}

\* C10: an image is classified as double exactly when width/height >=
\* threshold and width > 1, the ratio being 0 when height <= 0; an image not
\* classified as double is left unchanged on disk and gets one single-page
\* document.
C10_Classification ==
    [][ ProbeStep =>
          LET f   == filenames[k]
              w   == probe(Images, f)[1]
              h   == probe(Images, f)[2]
              num == double_page_ratio[1]
              den == double_page_ratio[2]
              double == /\ IF h <= 0 THEN 0 >= num ELSE w * den >= num * h
                        /\ w > 1
          IN  /\ SplitAttempted <=> double
              /\ ~double =>
                    /\ Images' = Images
                    /\ Text' = SingleDoc(f, w, h) @@ Text
      ]_vars

\* a run where the probe met height 0, a one pixel wide image and a
\* threshold that both reach
C10_Witness ==
    /\ pc = "done"
    /\ original_resolution[2] <= 0
    /\ \E f \in DOMAIN input : ~input[f].ok
    /\ \E f \in DOMAIN input : input[f].ok /\ input[f].w = 1
    /\ \E n \in DOMAIN log : log[n].msg = "Error splitting double page"

\* the step under way is a split that ran to its end (both page documents
\* were written)
SplitStep ==
    /\ InXhtmlLoop
    /\ Len(SelectSeq(NewLog, LAMBDA m : m.msg = "Created XHTML page (split)")) = 2

\* the image the split under way writes for a part
HalfImage(part) ==
    LET f == filenames[k]
    IN  Images'[sanitize_name(splitext(f)[1]) \o <<"_", part>> \o splitext(f)[2]]

\* C11: a split of an image of width W > 1 and height H writes the crops
\* [0, W \div 2) and [W \div 2, W) at full height: the widths add up to W,
\* differ by at most one (by exactly one when W is odd), are at least one,
\* and both heights are H.
C11_CropsPartitionWidth ==
    [][ SplitStep =>
          LET W == Images[filenames[k]].w
              H == Images[filenames[k]].h
              a == HalfImage("a")
              b == HalfImage("b")
              left  == IF a.crop = "left" THEN a ELSE b
              right == IF a.crop = "left" THEN b ELSE a
          IN  /\ W > 1
              /\ {a.crop, b.crop} = {"left", "right"}
              /\ left.w = W \div 2
              /\ right.w = W - (W \div 2)
              /\ left.w + right.w = W
              /\ right.w - left.w = W % 2
              /\ left.w >= 1 /\ right.w >= 1
              /\ left.h = H /\ right.h = H
      ]_vars

\* an odd width was split: the left crop is 2 wide, the right crop 3
C11_Witness ==
    \E f, g \in DOMAIN Images :
        /\ Images[f].crop = "left" /\ Images[f].w = 2 /\ Images[f].h = 3
        /\ Images[g].crop = "right" /\ Images[g].w = 3 /\ Images[g].h = 3

\* the side of the page a crop shows
CropSide(img) == IF img.crop = "left" THEN "left" ELSE "right"

\* C12: in ltr (in any letter case) the _a image of a split is the left crop
\* and the _b image the right crop; in rtl and for every value that is
\* neither, _a is the right crop and _b the left crop.  The spine builder
\* reads the direction the same way: a unit that follows another page is
\* led by its _a half on the side that crop shows.
C12_RolesFollowDirection ==
    [][ /\ SplitStep =>
             IF lower(reading_direction) = ltr
             THEN HalfImage("a").crop = "left" /\ HalfImage("b").crop = "right"
             ELSE HalfImage("a").crop = "right" /\ HalfImage("b").crop = "left"
        /\ (UnitAt /\ last_side # "None" /\ Images[At(image_files, i)].crop # "none") =>
             \E n \in DOMAIN NewRefs :
                /\ NewRefs[n].idref = page_id(safe_name_of(At(image_files, i)))
                /\ NewRefs[n].side = CropSide(Images[At(image_files, i)])
      ]_vars

\* a run whose direction is no direction at all split p2 as in rtl and
\* placed the unit after the page p1
C12_Witness ==
    /\ pc = "done"
    /\ reading_direction \notin {rtl, ltr}
    /\ lower(reading_direction) # ltr
    /\ SpineView = << Ref(<<"p", "1">>, "right"),
                      <<blank_id(1), "left">>,
                      Ref(<<"p", "2", "_", "a">>, "right"),
                      Ref(<<"p", "2", "_", "b">>, "left") >>
    /\ Images[<<"p", "2", "_", "a">> \o jpg].crop = "right"

\* the values of a sequence are pairwise distinct
Distinct(seq) == \A m, n \in DOMAIN seq : m # n => seq[m] # seq[n]

ManifestIds == [n \in DOMAIN manifest_items |-> manifest_items[n].id]

PageRefs == SelectSeq([n \in DOMAIN spine_items |-> spine_items[n].idref],
                      LAMBDA id : id \notin {blank_id(n) : n \in 1..blank_counter})

\* C13: two distinct image files of the final Images folder never share a
\* page document nor a manifest id, every manifest id occurs once, and no
\* page document is referenced by two non-blank spine entries.
C13_PagesOneToOne ==
    pc = "done" =>
        /\ \A f, g \in DOMAIN Images :
              (f # g /\ has_xhtml(Text, f) /\ has_xhtml(Text, g)) =>
                 /\ page_xhtml(safe_name_of(f)) # page_xhtml(safe_name_of(g))
                 /\ image_id(safe_name_of(f)) # image_id(safe_name_of(g))
        /\ Distinct(ManifestIds)
        /\ Distinct(PageRefs)

\* C14: the viewport of every page document is the pixel size of the image
\* it references: the full size for a kept original, the half's own size
\* for each half of a split, whatever the parity of the original width.
C14_ViewportIsImageSize ==
    \A d \in DOMAIN Text :
        (Text[d].img \in DOMAIN Images /\ Images[Text[d].img].ok) =>
            /\ Text[d].vw = Images[Text[d].img].w
            /\ Text[d].vh = Images[Text[d].img].h

\* the base names at hand: of the files handed to the run and of the files
\* of the Images folder
BaseNames == {splitext(f)[1] : f \in DOMAIN input \cup DOMAIN Images}

\* C15: sanitize_name is idempotent, keeps the length, yields only
\* alphanumerics, "_" and "-", and is the same function in the splitter and
\* in the spine builder; so the page document the spine builder looks up
\* for an image is the one the splitter wrote for it.
C15_SanitizeAgrees ==
    /\ \A b \in BaseNames :
          /\ sanitize_name(sanitize_name(b)) = sanitize_name(b)
          /\ Len(sanitize_name(b)) = Len(b)
          /\ \A n \in DOMAIN b : sanitize_name(b)[n] \in AlNum \cup {"_", "-"}
          /\ opf_sanitize_name(b) = sanitize_name(b)
    /\ \A d \in DOMAIN Text :
          Text[d].img \in DOMAIN Images => page_xhtml(safe_name_of(Text[d].img)) = d

\* a file whose base name had to be sanitized was split and both halves
\* are in the spine
C15_Witness ==
    /\ pc = "done"
    /\ \E f \in DOMAIN input : sanitize_name(splitext(f)[1]) # splitext(f)[1]
    /\ Len(spine_items) = 2
    /\ Cardinality(DOMAIN Text) = 2

IsBlankId(id) == Len(id) > 11 /\ SubSeq(id, 1, 11) = SubSeq(blank_id(0), 1, 11)

\* the ids of the blank pages, in the order of the spine / of the manifest
BlankRefs(spine) ==
    SelectSeq([n \in DOMAIN spine |-> spine[n].idref], IsBlankId)

BlankItems(manifest) ==
    SelectSeq([n \in DOMAIN manifest |-> manifest[n].id], IsBlankId)

BlankIdsUpTo(n) == [m \in 1..n |-> blank_id(m)]

\* C16: the blank pages are page_blank_1 .. page_blank_n without gap or
\* repetition; after every step blank_counter is the number of blank entries
\* of the spine and of the manifest, each blank id occurs once in each, and
\* no step removes a blank entry.
C16_BlanksNumbered ==
    [][ /\ BlankRefs(spine_items') = BlankIdsUpTo(blank_counter')
        /\ BlankItems(manifest_items') = BlankIdsUpTo(blank_counter')
        /\ blank_counter' >= blank_counter
        /\ SubSeq(BlankRefs(spine_items'), 1, blank_counter) = BlankRefs(spine_items)
        /\ SubSeq(BlankItems(manifest_items'), 1, blank_counter) = BlankItems(manifest_items)
      ]_vars

\* a book with two blank pages
C16_Witness ==
    /\ pc = "done"
    /\ blank_counter = 2
    /\ BlankRefs(spine_items) = <<blank_id(1), blank_id(2)>>

\* C17: a center entry is appended only for the image at position 0 of a
\* run with has_cover, alone, and the step leaves last_side, next_side and
\* blank_counter as they were and advances by one image; the image at
\* position 0 of such a run is emitted so whenever it has a page document;
\* a center entry is always the first entry of the spine.
C17_CoverOnlyFirst ==
    [][ /\ (\E n \in DOMAIN NewRefs : NewRefs[n].side = "center") =>
              /\ has_cover /\ i = 0
              /\ NewRefs = << Itemref(page_id(safe_name_of(At(image_files, 0))), "center") >>
              /\ last_side' = last_side
              /\ next_side' = next_side
              /\ blank_counter' = blank_counter
              /\ i' = i + 1
        /\ (InOpfLoop /\ i = 0 /\ has_cover /\ has_xhtml(Text, At(image_files, 0))) =>
              Len(NewRefs) = 1 /\ NewRefs[1].side = "center"
        /\ \A n \in DOMAIN spine_items' : spine_items'[n].side = "center" => n = 1
      ]_vars

\* a cover followed by a unit: the unit starts as if nothing preceded it
C17_Witness ==
    /\ pc = "done"
    /\ has_cover
    /\ Len(spine_items) = 3
    /\ spine_items[1].side = "center"
    /\ spine_items[2].side = "right"
    /\ \E n \in DOMAIN manifest_items : manifest_items[n].id = cover_id

\* the names the covers were stored under
CoverDestNames ==
    {log[n].file : n \in {m \in DOMAIN log : log[m].msg = "Copied (cover renamed)"}}

\* C18: when the source folder holds a file named cover, the copy stores it
\* under a name that sorts first among the files of the Images folder,
\* whatever the other files are called.
C18_CoverSortsFirst ==
    (pc = "xhtml" /\ k = 1 /\ CoverDestNames # {}) => filenames[1] \in CoverDestNames

\* C19: an image without page document is skipped: the step appends nothing
\* to the manifest or to the spine, leaves last_side, next_side and
\* blank_counter as they were, prints the warning, advances by exactly one
\* image and stays in the loop.
C19_MissingDocumentSkipped ==
    [][ (InOpfLoop /\ ~has_xhtml(Text, At(image_files, i))) =>
            /\ manifest_items' = manifest_items
            /\ spine_items' = spine_items
            /\ last_side' = last_side
            /\ next_side' = next_side
            /\ blank_counter' = blank_counter
            /\ NewLog = << Msg("Warning: XHTML page not found", At(image_files, i)) >>
            /\ i' = i + 1
            /\ pc' = "opf"
      ]_vars

\* the second of three images was skipped; the pages around it are on the
\* right and on the left
C19_Witness ==
    /\ pc = "done"
    /\ Len(image_files) = 3
    /\ ~has_xhtml(Text, image_files[2])
    /\ SpineView = << Ref(safe_name_of(image_files[1]), "right"),
                      Ref(safe_name_of(image_files[3]), "left") >>

ArcNames(arch) == [n \in DOMAIN arch |-> arch[n].arcname]

\* the archive so far: mimetype first and stored, every other entry
\* deflated, named by the path relative to temp/ of a file of the tree that
\* is not mimetype, no name twice
ArchiveWellFormed(arch, files) ==
    /\ arch[1] = Entry(mimetype_file, "ZIP_STORED")
    /\ \A n \in 2..Len(arch) :
          /\ arch[n].compress_type = "ZIP_DEFLATED"
          /\ arch[n].arcname # mimetype_file
          /\ arch[n].arcname \in files
    /\ Distinct(ArcNames(arch))

\* C20: in the archive create_epub_from_temp writes, mimetype is the first
\* entry, stored and present once; every other file of the working tree is
\* present once, after it and deflated; every entry is named by its path
\* relative to temp/.
C20_ArchiveLayout ==
    [][ /\ (pc' = "zip" /\ archive' # <<>>) =>
              ArchiveWellFormed(archive', temp_files(staged', Images', Text'))
        /\ (pc = "zip" /\ pc' = "epub") =>
              /\ ArchiveWellFormed(archive', temp_files(staged, Images, Text))
              /\ {archive'[n].arcname : n \in DOMAIN archive'}
                    = temp_files(staged, Images, Text)
      ]_vars

\* the archive of a book of one split page: nine files besides mimetype
C20_Witness ==
    /\ pc = "epub"
    /\ Len(archive) = 10
    /\ \E n \in DOMAIN archive :
          archive[n] = Entry(<<images_dir, <<"p", "1", "_", "a">> \o jpg>>, "ZIP_DEFLATED")
    /\ \E n \in DOMAIN archive : archive[n] = Entry(style_css, "ZIP_DEFLATED")

\* C21: after a run has aborted on a fatal condition, no .epub file of that
\* run exists at the output path.
C21_AbortLeavesNoEpub ==
    pc = "failed" => archive = <<>>

\* C22: the outcome of a run does not depend on the order in which the file
\* system lists the source folder: the Images folder the run worked on,
\* whose file names the manifest and the spine are built from, is the one
\* every other listing order of the same source folder yields.
C22_ListingOrderIrrelevant ==
    pc \notin {"copy", "idle"} =>
        \A listing \in listdir(source) : copy_images(source, listing).Images = input

\* the page document generate_xhtml_pages writes for the file under way
DocOfCurrent == page_xhtml(sanitize_name(splitext(filenames[k])[1]))

\* C23: a raster file that does not decode is handled where it is met: the
\* Images folder is left as it is (the original kept, no half image), the
\* only page document written is its single page document, with the
\* fallback size as viewport, and the pass goes on with the next file,
\* whatever the fallback size and the threshold.
C23_UndecodableIsSinglePage ==
    [][ (InXhtmlLoop /\ IsRaster(filenames[k]) /\ ~Images[filenames[k]].ok) =>
            /\ Images' = Images
            /\ DOMAIN Text' = DOMAIN Text \cup {DocOfCurrent}
            /\ \A d \in DOMAIN Text \ {DocOfCurrent} : Text'[d] = Text[d]
            /\ Text'[DocOfCurrent] = [vw |-> original_resolution[1],
                                      vh |-> original_resolution[2],
                                      img |-> filenames[k]]
            /\ k' = k + 1
            /\ pc' = "xhtml"
      ]_vars

\* a file that does not decode met a fallback size that is wide: the split
\* was tried and failed, the file got its single page with the fallback
\* viewport, and the file after it was processed too
C23_Witness ==
    /\ pc = "done"
    /\ Len(filenames) = 2
    /\ ~input[filenames[1]].ok
    /\ filenames[1] \in DOMAIN Images
    /\ \E n \in DOMAIN log :
          log[n] = Msg("Error splitting double page", filenames[1])
    /\ Text[page_xhtml(sanitize_name(splitext(filenames[1])[1]))].vw = 8
    /\ Len(spine_items) >= 2

\* the page documents the spine references, as hrefs of the manifest
SpineDocs ==
    {manifest_items[m].href :
        m \in {n \in DOMAIN manifest_items :
                 \E e \in DOMAIN spine_items : spine_items[e].idref = manifest_items[n].id}}

\* C24: toc.ncx has one navPoint per page document of the Text folder, in
\* file name order, with playOrder 1..n; the page documents it lists are
\* the page documents the spine references, blank pages included.
C24_TocMatchesSpine ==
    pc = "zip" =>
        /\ Len(nav_points) = Cardinality(DOMAIN Text)
        /\ \A n \in DOMAIN nav_points :
              /\ nav_points[n].playOrder = n
              /\ nav_points[n].src = text_href(sorted(DOMAIN Text)[n])
        /\ {nav_points[n].src : n \in DOMAIN nav_points} = SpineDocs


\* the staging tree as initial_setup leaves it
CleanTree == staged = setup_files /\ Images = <<>> /\ Text = <<>>

\* no staging tree
NoTree == staged = {} /\ Images = <<>> /\ Text = <<>>

\* C25 as stated: every run starts its copy stage on a tree holding only
\* mimetype and container.xml, and after a successful run no staging tree
\* exists.
C25_TreeGoneAfterSuccess ==
    /\ pc = "copy" => CleanTree
    /\ pc = "epub" => NoTree

\* C25: every run starts its copy stage on a tree holding only mimetype and
\* container.xml, whatever earlier runs left behind; after a successful run
\* the staging tree is gone, or its removal failed and the warning was
\* printed.
C25_CleanTreeForEveryRun ==
    /\ pc = "copy" => CleanTree
    /\ pc = "epub" =>
          \/ NoTree
          \/ log[Len(log)] = Msg("Warning: could not remove temp folder", <<>>)

\* a run that follows a failure starts its copy stage
C25_Witness == pc = "copy" /\ faults > 0 /\ CleanTree


\* the loop is at the `_a` half of a unit whose `_b` half has no page document
HalfBMissing ==
    /\ InOpfLoop
    /\ has_xhtml(Text, At(image_files, i))
    /\ ~is_cover(i)
    /\ is_double_group_start(image_files, i)
    /\ ~has_xhtml(Text, At(image_files, i + 1))

OtherSide(side) == IF side = "right" THEN "left" ELSE "right"

\* the step of the loop at a unit without its `_b` page document
HalfBMissingStep ==
    LET rd    == opf_direction(reading_direction)
        blank == needs_blank(Layout, rd)
        a     == page_id(safe_name_of(At(image_files, i)))
        b     == page_id(safe_name_of(At(image_files, i + 1)))
        old   == Len(spine_items)
        new   == Len(spine_items')
    IN  /\ i' = i + 2
        /\ new = old + (IF blank THEN 2 ELSE 1)
        /\ SubSeq(spine_items', 1, old) = spine_items
        /\ blank => /\ IsBlankId(spine_items'[old + 1].idref)
                    /\ spine_items'[old + 1].side = next_side
                    /\ blank_counter' = blank_counter + 1
        /\ ~blank => blank_counter' = blank_counter
        /\ spine_items'[new] =
              Itemref(a, IF blank THEN OtherSide(next_side) ELSE next_side)
        /\ next_side' = OtherSide(spine_items'[new].side)
        /\ \A e \in DOMAIN spine_items' : spine_items'[e].idref # b
        /\ \A m \in DOMAIN manifest_items' : manifest_items'[m].id # b

\* a step of the loop that emits entries starts at next_side (the cover
\* aside)
EmitsAtNextSide ==
    (InOpfLoop /\ ~is_cover(i) /\ Len(spine_items') > Len(spine_items)) =>
        spine_items'[Len(spine_items) + 1].side = next_side

\* C26: at a double-spread unit whose `_b` half has no page document the
\* loop makes the blank-page check, emits the `_a` half at next_side, emits
\* nothing for `_b`, advances by two, and leaves next_side opposite to the
\* side of `_a`, which is the side the next emitted entry takes.
C26_HalfAWithoutPartner ==
    [][(HalfBMissing => HalfBMissingStep) /\ EmitsAtNextSide]_vars

\* a finished spine where an `_a` half without partner is followed by an
\* entry on the other side
C26_Witness ==
    /\ pc = "done"
    /\ \E n \in 0..(Len(image_files) - 2) :
          /\ is_double_group_start(image_files, n)
          /\ has_xhtml(Text, At(image_files, n))
          /\ ~has_xhtml(Text, At(image_files, n + 1))
          /\ \E e \in 1..(Len(spine_items) - 1) :
                /\ spine_items[e].idref = page_id(safe_name_of(At(image_files, n)))
                /\ spine_items[e + 1].side = OtherSide(spine_items[e].side)


\* the images of the list that have a page document, in list order
RECURSIVE PagedFrom(_)
PagedFrom(n) ==
    IF n >= Len(image_files) THEN <<>>
    ELSE (IF has_xhtml(Text, At(image_files, n))
          THEN << At(image_files, n) >> ELSE <<>>) \o PagedFrom(n + 1)

\* the references of the spine that are not blank pages, from entry n on
RECURSIVE NonBlankRefs(_)
NonBlankRefs(n) ==
    IF n > Len(spine_items) THEN <<>>
    ELSE (IF IsBlankId(spine_items[n].idref) THEN <<>>
          ELSE << spine_items[n].idref >>) \o NonBlankRefs(n + 1)

PageIdsOf(files) == [n \in DOMAIN files |-> page_id(safe_name_of(files[n]))]

\* C27: when the loop of generate_content_opf is over, every image that has
\* a page document is referenced by exactly one spine entry and by exactly
\* two manifest items (its page item and its image item), and the spine
\* entries that are not blank pages follow the order of the sorted list.
C27_EveryPagedImageOnce ==
    pc = "done" =>
        /\ \A n \in DOMAIN PagedFrom(0) :
              LET img == PagedFrom(0)[n]
              IN  /\ Cardinality({e \in DOMAIN spine_items :
                         spine_items[e].idref = page_id(safe_name_of(img))}) = 1
                  /\ Cardinality({m \in DOMAIN manifest_items :
                         manifest_items[m].href = text_href(page_xhtml(safe_name_of(img)))}) = 1
                  /\ Cardinality({m \in DOMAIN manifest_items :
                         manifest_items[m].href = images_href(img)}) = 1
        /\ NonBlankRefs(1) = PageIdsOf(PagedFrom(0))


\* the indices of the list at which a double-spread unit starts
Units == {n \in 0..(Len(image_files) - 1) : is_double_group_start(image_files, n)}

\* the spine entries that are blank pages
Blanks == {e \in DOMAIN spine_items : IsBlankId(spine_items[e].idref)}

\* C28: a blank entry of the spine is immediately followed by the `_a` half
\* of a double-spread unit on the desired leading side, so that no two
\* blanks are adjacent and no blank is last; there are at most as many
\* blanks as units.
C28_BlankBeforeUnit ==
    pc \in {"opf", "done"} =>
        /\ \A e \in Blanks :
              /\ e < Len(spine_items)
              /\ ~IsBlankId(spine_items[e + 1].idref)
              /\ spine_items[e + 1].side =
                     desired_side_a(opf_direction(reading_direction))
              /\ \E n \in Units :
                     spine_items[e + 1].idref = page_id(safe_name_of(At(image_files, n)))
        /\ Cardinality(Blanks) <= Cardinality(Units)

\* a finished spine with a blank page
C28_Witness ==
    /\ pc = "done"
    /\ Blanks # {}
    /\ \E e \in Blanks, n \in Units :
          /\ e > 1
          /\ spine_items[e + 1].idref = page_id(safe_name_of(At(image_files, n)))
          /\ spine_items[e + 1].side = OtherSide(spine_items[e].side)


HasPrefix(s, p) == Len(s) >= Len(p) /\ SubSeq(s, 1, Len(p)) = p

\* the file of the staging tree that an href of content.opf names: hrefs are
\* relative to OEBPS, the folder of content.opf
HrefFile(href) ==
    IF HasPrefix(href, text_href(<<>>))
    THEN <<text_dir, SubSeq(href, Len(text_href(<<>>)) + 1, Len(href))>>
    ELSE IF HasPrefix(href, images_href(<<>>))
         THEN <<images_dir, SubSeq(href, Len(images_href(<<>>)) + 1, Len(href))>>
         ELSE <<oebps_dir, href>>

\* C29: in the package of a run that reports success every href of the
\* manifest names a file that is in the archive.
C29_ManifestFilesPacked ==
    pc = "epub" =>
        \A m \in DOMAIN manifest_items :
            \E n \in DOMAIN archive :
                archive[n].arcname = HrefFile(manifest_items[m].href)


\* C30: the window never has two pipeline runs active: while a worker runs
\* the start button is disabled, it is disabled before the thread starts,
\* and only the _finish callback of a worker that is over sets it back to
\* normal.
C30_OneRunAtATime ==
    /\ [](/\ Len(threads) <= 1
          /\ threads # <<>> => btn_start = "disabled"
          /\ gui_pc = "on_start" => btn_start = "disabled" /\ threads = <<>>)
    /\ [][(btn_start = "disabled" /\ btn_start' = "normal") =>
              /\ threads = <<>>
              /\ after_queue # <<>>
              /\ Head(after_queue).callback = "_finish"
              /\ after_queue' = Tail(after_queue)]_vars

\* a worker runs, the fields are valid for another start, and the button is
\* disabled
C30_Witness ==
    /\ Len(threads) = 1
    /\ ~on_start_rejects(form)
    /\ UserEvent
    /\ btn_start = "disabled"


\* the completion callbacks still to come: a worker that has not called done
\* yet, or a _finish waiting in the queue
Completions ==
    Len(threads) +
    Cardinality({n \in DOMAIN after_queue : after_queue[n].callback = "_finish"})

\* a message box that reports success
SuccessBoxes == {n \in DOMAIN messagebox : messagebox[n].title = "Success"}

\* C31: every conversion started from the window reports completion exactly
\* once: from the disabled button on, exactly one completion is under way
\* (none once the button is normal again), the button becomes normal again
\* with the final message box open, and a success box says that an EPUB was
\* generated.
C31_CompletionOnce ==
    /\ [](/\ (btn_start = "disabled" /\ gui_pc = "mainloop") => Completions = 1
          /\ (btn_start = "normal" \/ gui_pc = "on_start") => Completions = 0
          /\ \A n \in SuccessBoxes :
                messagebox[n].message \in {"EPUB generated", "EPUB files generated"})
    /\ [][(after_queue # <<>> /\ after_queue' = Tail(after_queue)
             /\ Head(after_queue).callback = "_finish") =>
              /\ btn_start' = "normal"
              /\ Len(messagebox') = Len(messagebox) + 1]_vars
    /\ (btn_start = "disabled") ~> (btn_start = "normal" /\ messagebox # <<>>)

\* a CBZ batch that produced nothing has reported its end: the button is
\* normal again and the error box is open
C31_Witness ==
    /\ btn_start = "normal"
    /\ threads = <<>>
    /\ \E n \in DOMAIN messagebox : messagebox[n] = Box("Error", "No EPUB generated")


\* the EPUB paths of the files among the first n paths of the batch
RECURSIVE EpubsOfFiles(_)
EpubsOfFiles(n) ==
    IF n = 0 THEN <<>>
    ELSE EpubsOfFiles(n - 1) \o
         (IF cbz_isfile(cbz_paths[n]) THEN << epub_path(cbz_paths[n]) >> ELSE <<>>)

\* C32: when run_pipeline_cbz_list returns or raises no extraction folder
\* exists; when it returns, the paths that are not files were skipped and
\* the list holds the EPUB paths of the archives converted, in input order.
C32_ExtractFoldersRemoved ==
    /\ batch_pc \in {"returned", "raised"} => extract_dirs = {}
    /\ batch_pc = "returned" =>
          /\ cbz_idx = Len(cbz_paths) + 1
          /\ generated_epubs = EpubsOfFiles(Len(cbz_paths))

====
